---- MODULE Spec2Model ----
(***************************************************************************)
(* Model of the eBay OAuth token lifecycle and the authenticated request   *)
(* wrappers of src/ebay_api_integration.py (class eBayAPIIntegration).     *)
(*                                                                         *)
(* Token values are small integers; 0 stands for a falsy token (None or    *)
(* the empty string).  Time is an integer clock.  A datetime held in       *)
(* memory is a record [kind, t]: "none" (None), "naive" (a naive datetime  *)
(* at instant t) or "aware" (a timezone-aware datetime, which Python       *)
(* refuses to compare with the naive datetime.now()).                      *)
(*                                                                         *)
(* The second half models the listing functions, which hold no state:      *)
(* pricing, category and title of src/ebay_art_analyzer.py, the CSV        *)
(* export, the error text of _parse_ebay_error and the listing of          *)
(* src/demo.py.  Strings are TLA+ strings, amounts of money are integers   *)
(* (cents, or smaller units where a product is not yet rounded).           *)
(***************************************************************************)
EXTENDS Integers, FiniteSets, Sequences, TLC

\* ---------------------------------------------------------------- bounds
MaxTok == 1
MaxTime == 1
MaxExpiresIn == 1
MaxDelay == 1

\* ------------------------------------------------------ program constants
DefaultExpiresIn == 7200

Tokens == 0..MaxTok
Environments == {"sandbox", "production"}

\* ---------------------------------------------------- datetime values
NoneTime == [kind |-> "none", t |-> 0]
AwareTime == [kind |-> "aware", t |-> 0]
Naive(n) == [kind |-> "naive", t |-> n]

\* bool(x) of a token value
Truthy(tok) == tok # 0

\* datetime.isoformat(): the text stored under expires_at by _save_tokens
\* (None when no datetime is held)
isoformat(dt) ==
  IF dt.kind = "naive" THEN [kind |-> "iso", t |-> dt.t]
  ELSE IF dt.kind = "aware" THEN [kind |-> "iso_tz", t |-> 0]
  ELSE [kind |-> "null", t |-> 0]

\* datetime.fromisoformat(): "iso" parses to a naive datetime, "iso_tz" (a
\* text with a UTC offset) to an aware one; any other text raises ValueError
fromisoformat(txt) ==
  IF txt.kind = "iso" THEN [raised |-> FALSE, value |-> Naive(txt.t)]
  ELSE IF txt.kind = "iso_tz" THEN [raised |-> FALSE, value |-> AwareTime]
  ELSE [raised |-> TRUE, value |-> NoneTime]

\* ------------------------------------------------ the persisted token file
AbsentFile ==
  [kind |-> "absent", access_token |-> 0, refresh_token |-> 0,
   expires_at |-> [kind |-> "null", t |-> 0], environment |-> "sandbox"]
\* a file that is not a JSON object (bad JSON, a half-written file, a list)
GarbageFile ==
  [kind |-> "garbage", access_token |-> 0, refresh_token |-> 0,
   expires_at |-> [kind |-> "null", t |-> 0], environment |-> "sandbox"]
TokenFile(at, rt, exp, env) ==
  [kind |-> "tokens", access_token |-> at, refresh_token |-> rt,
   expires_at |-> exp, environment |-> env]

\* the in-memory token slot of one eBayAPIIntegration object
Slot(at, rt, exp) ==
  [access_token |-> at, refresh_token |-> rt, token_expires_at |-> exp]
EmptySlot == Slot(0, 0, NoneTime)

\* ------------------------------------------------ responses and I/O outcomes
\* A response of the OAuth token endpoint.  status 0: requests.post raised
\* (no response).  body "nojson": response.json() raises; "nokey": JSON
\* without an access_token entry; "json": a JSON object with access_token.
\* ein_kind: expires_in is absent, a number, or something timedelta rejects.
OAuthReply(st, body, at, rt, ek, ein) ==
  [status |-> st, body |-> body, access_token |-> at, refresh_token |-> rt,
   ein_kind |-> ek, expires_in |-> ein]
NoReply == OAuthReply(0, "nojson", 0, 0, "absent", 0)
OAuthResponses ==
  {NoReply, OAuthReply(400, "json", 0, 0, "absent", 0),
   OAuthReply(200, "nojson", 0, 0, "absent", 0),
   OAuthReply(200, "nokey", 0, 0, "absent", 0)}
  \cup {OAuthReply(200, "json", at, rt, "number", n) :
          at \in Tokens, rt \in Tokens, n \in 0..MaxExpiresIn}
  \cup {OAuthReply(200, "json", at, rt, ek, 0) :
          at \in Tokens, rt \in Tokens, ek \in {"absent", "bad"}}
\* the replies to a refresh grant: the code reads no refresh_token from them
RefreshResponses == {r \in OAuthResponses : r.refresh_token = 0}

\* What writing .ebay_tokens.json does: "ok", or "denied": open() raises and
\* the file stays as it was.
SaveOutcomes == {"ok", "denied"}

\* --------------------------------------------------------- _save_tokens
_save_tokens(slot, file, env, io) ==
  IF io = "ok"
  THEN [raised |-> FALSE,
        file |-> TokenFile(slot.access_token, slot.refresh_token,
                           isoformat(slot.token_expires_at), env)]
  ELSE [raised |-> TRUE, file |-> file]

\* --------------------------------------------------------- _load_tokens
\* (a variant that forgets to restore refresh_token)
load_tokens_without_refresh(slot, file) ==
  IF file.kind # "tokens" THEN slot
  ELSE LET s1 == Slot(file.access_token, slot.refresh_token,
                      slot.token_expires_at)
           parsed == fromisoformat(file.expires_at)
       IN IF file.expires_at.kind = "null" THEN s1
          ELSE IF parsed.raised THEN s1
          ELSE Slot(s1.access_token, s1.refresh_token, parsed.value)

\* Returns the slot after the load.  The three assignments are made in the
\* order of the code, so a fromisoformat error leaves the first two done.
_load_tokens(slot, file) ==
  IF file.kind # "tokens" THEN slot
  ELSE LET s1 == Slot(file.access_token, file.refresh_token,
                      slot.token_expires_at)
           parsed == fromisoformat(file.expires_at)
       IN IF file.expires_at.kind = "null" THEN s1
          ELSE IF parsed.raised THEN s1
          ELSE Slot(s1.access_token, s1.refresh_token, parsed.value)

\* expires_in = token_data.get('expires_in', 7200)
ExpiresIn(resp) ==
  IF resp.ein_kind = "absent" THEN DefaultExpiresIn ELSE resp.expires_in

\* the outcome of a call: the slot and the file after it, what it returned,
\* the requests it sent to the OAuth endpoint and its _save_tokens calls
Out(slot, file, ret, oauth, saves) ==
  [slot |-> slot, file |-> file, ret |-> ret, oauth |-> oauth,
   saves |-> saves]

\* ------------------------------------------------- refresh_access_token
\* (a variant that never looks at the status code)
refresh_any_status(slot, file, env, now, resp, io) ==
  IF ~Truthy(slot.refresh_token) THEN Out(slot, file, "false", 0, 0)
  ELSE IF resp.status = 0 THEN Out(slot, file, "false", 1, 0)
  ELSE IF resp.body # "json" THEN Out(slot, file, "false", 1, 0)
  ELSE LET s1 == Slot(resp.access_token, slot.refresh_token,
                      slot.token_expires_at)
           s2 == Slot(resp.access_token, slot.refresh_token,
                      Naive(now + ExpiresIn(resp)))
           saved == _save_tokens(s2, file, env, io)
       IN IF resp.ein_kind = "bad" THEN Out(s1, file, "false", 1, 0)
          ELSE IF saved.raised THEN Out(s2, saved.file, "false", 1, 1)
          ELSE Out(s2, saved.file, "true", 1, 1)

\* (a variant that stores the new access token but not the new expiry)
refresh_stale_expiry(slot, file, env, now, resp, io) ==
  IF ~Truthy(slot.refresh_token) THEN Out(slot, file, "false", 0, 0)
  ELSE IF resp.status = 0 THEN Out(slot, file, "false", 1, 0)
  ELSE IF resp.status # 200 THEN Out(slot, file, "false", 1, 0)
  ELSE IF resp.body # "json" THEN Out(slot, file, "false", 1, 0)
  ELSE LET s1 == Slot(resp.access_token, slot.refresh_token,
                      slot.token_expires_at)
           saved == _save_tokens(s1, file, env, io)
       IN IF resp.ein_kind = "bad" THEN Out(s1, file, "false", 1, 0)
          ELSE IF saved.raised THEN Out(s1, saved.file, "false", 1, 1)
          ELSE Out(s1, saved.file, "true", 1, 1)

\* now: datetime.now() when the response has arrived (line 147).
refresh_access_token(slot, file, env, now, resp, io) ==
  IF ~Truthy(slot.refresh_token) THEN Out(slot, file, "false", 0, 0)
  ELSE IF resp.status = 0 THEN Out(slot, file, "false", 1, 0)
  ELSE IF resp.status # 200 THEN Out(slot, file, "false", 1, 0)
  ELSE IF resp.body # "json" THEN Out(slot, file, "false", 1, 0)
  ELSE LET s1 == Slot(resp.access_token, slot.refresh_token,
                      slot.token_expires_at)
           s2 == Slot(resp.access_token, slot.refresh_token,
                      Naive(now + ExpiresIn(resp)))
           saved == _save_tokens(s2, file, env, io)
       IN IF resp.ein_kind = "bad" THEN Out(s1, file, "false", 1, 0)
          ELSE IF saved.raised THEN Out(s2, saved.file, "false", 1, 1)
          ELSE Out(s2, saved.file, "true", 1, 1)

\* ---------------------------------------------- exchange_code_for_token
\* ret "token_data": the response's mapping; "empty": {}.
exchange_code_for_token(slot, file, env, now, resp, io) ==
  IF resp.status = 0 THEN Out(slot, file, "empty", 1, 0)
  ELSE IF resp.status # 200 THEN Out(slot, file, "empty", 1, 0)
  ELSE IF resp.body # "json" THEN Out(slot, file, "empty", 1, 0)
  ELSE LET s1 == Slot(resp.access_token, resp.refresh_token,
                      slot.token_expires_at)
           s2 == Slot(resp.access_token, resp.refresh_token,
                      Naive(now + ExpiresIn(resp)))
           saved == _save_tokens(s2, file, env, io)
       IN IF resp.ein_kind = "bad" THEN Out(s1, file, "empty", 1, 0)
          ELSE IF saved.raised THEN Out(s2, saved.file, "empty", 1, 1)
          ELSE Out(s2, saved.file, "token_data", 1, 1)

\* --------------------------------------------------- ensure_valid_token
\* (a variant with the expiry comparison turned around)
ensure_flipped_comparison(slot, file, env, now, delay, resp, io) ==
  LET s1 == IF ~Truthy(slot.access_token) THEN _load_tokens(slot, file)
            ELSE slot
      exp == s1.token_expires_at
  IN IF exp.kind = "aware" THEN Out(s1, file, "raise", 0, 0)
     ELSE IF exp.kind = "naive" /\ now <= exp.t
          THEN IF Truthy(s1.refresh_token)
               THEN refresh_access_token(s1, file, env, now + delay, resp, io)
               ELSE Out(s1, file, "false", 0, 0)
     ELSE Out(s1, file, IF Truthy(s1.access_token) THEN "true" ELSE "false",
              0, 0)

\* (a variant that, with no refresh token, falls through to the last line)
ensure_falls_through(slot, file, env, now, delay, resp, io) ==
  LET s1 == IF ~Truthy(slot.access_token) THEN _load_tokens(slot, file)
            ELSE slot
      exp == s1.token_expires_at
  IN IF exp.kind = "aware" THEN Out(s1, file, "raise", 0, 0)
     ELSE IF exp.kind = "naive" /\ now >= exp.t /\ Truthy(s1.refresh_token)
          THEN refresh_access_token(s1, file, env, now + delay, resp, io)
     ELSE Out(s1, file, IF Truthy(s1.access_token) THEN "true" ELSE "false",
              0, 0)

\* now: datetime.now() at the expiry check (line 198); the refresh, when
\* one is made, reads the clock again delay later.  ret "raise": the
\* comparison of datetime.now() with an aware datetime raises TypeError,
\* outside of any try block.
ensure_valid_token(slot, file, env, now, delay, resp, io) ==
  LET s1 == IF ~Truthy(slot.access_token) THEN _load_tokens(slot, file)
            ELSE slot
      exp == s1.token_expires_at
  IN IF exp.kind = "aware" THEN Out(s1, file, "raise", 0, 0)
     ELSE IF exp.kind = "naive" /\ now >= exp.t
          THEN IF Truthy(s1.refresh_token)
               THEN refresh_access_token(s1, file, env, now + delay, resp, io)
               ELSE Out(s1, file, "false", 0, 0)
     ELSE Out(s1, file, IF Truthy(s1.access_token) THEN "true" ELSE "false",
              0, 0)

\* ------------------------------------------- authenticated marketplace calls
\* A response of a marketplace endpoint.  status 0: requests raised.  body:
\* "json" (a JSON object), "empty" (no text) or "garbage" (text that
\* response.json() rejects).
MarketResponses ==
  [status : {0, 200, 201, 204, 400}, body : {"json", "empty", "garbage"}]
NoMarketReply == [status |-> 0, body |-> "empty"]

\* product_data that _convert_to_ebay_format can ("ok") or cannot ("bad",
\* e.g. a medium that is not a string) turn into an inventory item
Products == {"ok", "bad"}

MOut(e, ret, market) ==
  [slot |-> e.slot, file |-> e.file, ret |-> ret, oauth |-> e.oauth,
   saves |-> e.saves, market |-> market, ensured |-> e.ret]

create_inventory_item(slot, file, env, now, delay, resp, io, product, mresp) ==
  LET e == ensure_valid_token(slot, file, env, now, delay, resp, io)
  IN IF e.ret = "raise" THEN MOut(e, "raise", 0)
     ELSE IF e.ret # "true" THEN MOut(e, "no_token", 0)
     ELSE IF product = "bad" THEN MOut(e, "failure", 0)
     ELSE IF mresp.status = 0 THEN MOut(e, "failure", 1)
     ELSE IF mresp.status \in {200, 201, 204} THEN MOut(e, "success", 1)
     ELSE MOut(e, "failure", 1)

\* (a variant that sends the request whatever ensure_valid_token returned)
create_offer_unchecked(slot, file, env, now, delay, resp, io, mresp) ==
  LET e == ensure_valid_token(slot, file, env, now, delay, resp, io)
  IN IF e.ret = "raise" THEN MOut(e, "raise", 0)
     ELSE IF mresp.status = 0 THEN MOut(e, "failure", 1)
     ELSE IF mresp.status \in {200, 201}
          THEN IF mresp.body = "json" THEN MOut(e, "success", 1)
               ELSE MOut(e, "failure", 1)
     ELSE MOut(e, "failure", 1)

create_offer(slot, file, env, now, delay, resp, io, mresp) ==
  LET e == ensure_valid_token(slot, file, env, now, delay, resp, io)
  IN IF e.ret = "raise" THEN MOut(e, "raise", 0)
     ELSE IF e.ret # "true" THEN MOut(e, "no_token", 0)
     ELSE IF mresp.status = 0 THEN MOut(e, "failure", 1)
     ELSE IF mresp.status \in {200, 201}
          THEN IF mresp.body = "json" THEN MOut(e, "success", 1)
               ELSE MOut(e, "failure", 1)
     ELSE MOut(e, "failure", 1)

publish_offer(slot, file, env, now, delay, resp, io, mresp) ==
  LET e == ensure_valid_token(slot, file, env, now, delay, resp, io)
  IN IF e.ret = "raise" THEN MOut(e, "raise", 0)
     ELSE IF e.ret # "true" THEN MOut(e, "no_token", 0)
     ELSE IF mresp.status = 0 THEN MOut(e, "failure", 1)
     ELSE IF mresp.status \in {200, 204}
          THEN IF mresp.body = "garbage" THEN MOut(e, "failure", 1)
               ELSE MOut(e, "success", 1)
     ELSE MOut(e, "failure", 1)

get_account_info(slot, file, env, now, delay, resp, io, mresp) ==
  LET e == ensure_valid_token(slot, file, env, now, delay, resp, io)
  IN IF e.ret = "raise" THEN MOut(e, "raise", 0)
     ELSE IF e.ret # "true" THEN MOut(e, "no_token", 0)
     ELSE IF mresp.status = 0 THEN MOut(e, "failure", 1)
     ELSE IF mresp.status = 200
          THEN IF mresp.body = "json" THEN MOut(e, "success", 1)
               ELSE MOut(e, "failure", 1)
     ELSE MOut(e, "failure", 1)

\* =================================================================== state
VARIABLES
  access_token,        \* self.access_token
  refresh_token,       \* self.refresh_token
  token_expires_at,    \* self.token_expires_at
  environment,         \* self.credentials['environment']
  token_file,          \* the content of .ebay_tokens.json
  clock,               \* datetime.now()
  last,                \* the call that has just returned: the state it
                       \* began in, the reply it got and its outcome
                       \* (NoCall once the caller has taken the result)
  args,                \* the arguments of a call of one of the listing
                       \* functions, which use no token state
  result,              \* what that call returned (NotCalled before it)
  inventory_db         \* data/inventory_database.json: the product record
                       \* kept under every SKU

vars ==
  <<access_token, refresh_token, token_expires_at, environment, token_file,
    clock, last, args, result, inventory_db>>

\* the listing functions are not part of the token lifecycle
NoArgs == [fn |-> "none"]
NotCalled == [fn |-> "none"]
\* no inventory database file: save_product_local starts from db = {}
NoDatabase == [sku \in {} |-> NotCalled]

self == Slot(access_token, refresh_token, token_expires_at)

\* The token file the process finds on disk: whatever an earlier process, or
\* anyone else, left there.
FileTexts ==
  {[kind |-> "null", t |-> 0], [kind |-> "bad", t |-> 0],
   [kind |-> "iso_tz", t |-> 0]}
  \cup {[kind |-> "iso", t |-> n] : n \in 0..MaxTime}
InitialFiles ==
  {AbsentFile, GarbageFile}
  \cup {TokenFile(at, rt, exp, env) :
          at \in Tokens, rt \in Tokens, exp \in FileTexts,
          env \in Environments}

\* ------------------------------------------- the states the claims speak of
\* Valid: an access token is held and its expiry is strictly in the future
Valid(slot, now) ==
  /\ Truthy(slot.access_token)
  /\ slot.token_expires_at.kind = "naive"
  /\ now < slot.token_expires_at.t
\* Expired: current time >= expires_at
Expired(slot, now) ==
  /\ slot.token_expires_at.kind = "naive"
  /\ now >= slot.token_expires_at.t
\* the token ensure_valid_token examines: the held one, or with no access
\* token in memory what the lazy load brings
Examined(slot, file) ==
  IF Truthy(slot.access_token) THEN slot ELSE _load_tokens(slot, file)
\* a persisted token whose expires_at is in the past, with a refresh_token
PersistedExpired(file, now) ==
  /\ file.kind = "tokens"
  /\ file.expires_at.kind = "iso"
  /\ now >= file.expires_at.t
  /\ Truthy(file.refresh_token)

\* what the state was when the last call began
PreState ==
  [valid |-> Valid(self, clock),
   notoken |-> (self = EmptySlot),
   held |-> Truthy(access_token),
   nofile |-> (token_file.kind = "absent"),
   persisted_expired |-> PersistedExpired(token_file, clock),
   expired |-> Expired(Examined(self, token_file), clock),
   refreshable |-> Truthy(Examined(self, token_file).refresh_token)]

\* what the record of a call keeps of a reply: all but the token values
Seen(resp) ==
  [resp EXCEPT !.access_token = IF Truthy(resp.access_token) THEN 1 ELSE 0,
               !.refresh_token = 0]

\* The record of a call.  The reply and the save outcome are recorded only
\* when the call got that far, so that calls that behaved alike are alike.
Call(op, out, market, ensured, resp, io) ==
  [op |-> op, ret |-> out.ret, ensured |-> ensured, oauth |-> out.oauth,
   market |-> market, saves |-> out.saves, pre |-> PreState,
   changed |-> (out.slot # self), rewrote |-> (out.file # token_file),
   resp |-> IF out.oauth > 0 THEN Seen(resp) ELSE NoReply,
   io |-> IF out.saves > 0 THEN io ELSE "ok"]

NoCall ==
  [op |-> "init", ret |-> "none", ensured |-> "none", oauth |-> 0,
   market |-> 0, saves |-> 0,
   pre |-> [valid |-> FALSE, notoken |-> TRUE, held |-> FALSE,
            nofile |-> TRUE, persisted_expired |-> FALSE,
            expired |-> FALSE, refreshable |-> FALSE],
   changed |-> FALSE, rewrote |-> FALSE, resp |-> NoReply, io |-> "ok"]

\* __init__ (lines 26-56): no token is held, the environment is what
\* EBAY_ENVIRONMENT says; the token file is whatever the disk holds, left by
\* a process of either environment.
Init ==
  /\ access_token = 0
  /\ refresh_token = 0
  /\ token_expires_at = NoneTime
  /\ environment \in Environments
  /\ token_file \in InitialFiles
  /\ clock = 0
  /\ last = NoCall
  /\ args = NoArgs
  /\ result = NotCalled
  /\ inventory_db = NoDatabase

\* ---------------------------------------- the inputs a call can consume
\* The replies the OAuth endpoint may give to a call that asks it (asks),
\* the time the exchange takes, and the outcomes of a save the reply leads to.
Replies(asks) == IF asks THEN RefreshResponses ELSE {NoReply}
Delays(asks) == IF asks THEN 0..MaxDelay ELSE {0}
Saves(resp) ==
  IF resp.status = 200 /\ resp.body = "json" /\ resp.ein_kind # "bad"
  THEN SaveOutcomes ELSE {"ok"}
MarketReplies(asks) == IF asks THEN MarketResponses ELSE {NoMarketReply}
\* whether ensure_valid_token goes to the OAuth endpoint from this state
Refreshes ==
  ensure_valid_token(self, token_file, environment, clock, 0, NoReply,
                     "ok").oauth > 0

\* calls are made one after another: the caller has taken the result of the
\* previous one
Idle == last = NoCall

\* the slot, the file and the clock after a call with outcome out
Apply(out, delay) ==
  /\ access_token' = out.slot.access_token
  /\ refresh_token' = out.slot.refresh_token
  /\ token_expires_at' = out.slot.token_expires_at
  /\ token_file' = out.file
  /\ clock' = clock + delay
  /\ UNCHANGED <<environment, args, result, inventory_db>>

ExchangeCode ==
  \E resp \in OAuthResponses, delay \in 0..MaxDelay :
    \E io \in Saves(resp) :
      LET out == exchange_code_for_token(self, token_file, environment,
                                         clock + delay, resp, io)
      IN /\ Idle /\ clock + delay <= MaxTime
         /\ Apply(out, delay)
         /\ last' = Call("exchange", out, 0, "none", resp, io)

RefreshAccessToken ==
  \E resp \in Replies(Truthy(refresh_token)),
     delay \in Delays(Truthy(refresh_token)) :
    \E io \in Saves(resp) :
      LET out == refresh_access_token(self, token_file, environment,
                                      clock + delay, resp, io)
      IN /\ Idle /\ clock + delay <= MaxTime
         /\ Apply(out, delay)
         /\ last' = Call("refresh", out, 0, "none", resp, io)

EnsureValidToken ==
  \E resp \in Replies(Refreshes), delay \in Delays(Refreshes) :
    \E io \in Saves(resp) :
      LET out == ensure_valid_token(self, token_file, environment, clock,
                                    delay, resp, io)
      IN /\ Idle /\ clock + delay <= MaxTime
         /\ Apply(out, delay)
         /\ last' = Call("ensure", out, 0, out.ret, resp, io)

CreateInventoryItem ==
  \E resp \in Replies(Refreshes), delay \in Delays(Refreshes) :
    \E io \in Saves(resp), product \in Products :
      LET e == ensure_valid_token(self, token_file, environment, clock,
                                  delay, resp, io)
      IN \E mresp \in MarketReplies(e.ret = "true" /\ product = "ok") :
           LET out == create_inventory_item(self, token_file, environment,
                        clock, delay, resp, io, product, mresp)
           IN /\ Idle /\ clock + delay <= MaxTime
              /\ Apply(out, delay)
                   /\ last' = Call("inventory", out, out.market, out.ensured,
                              resp, io)

CreateOffer ==
  \E resp \in Replies(Refreshes), delay \in Delays(Refreshes) :
    \E io \in Saves(resp) :
      LET e == ensure_valid_token(self, token_file, environment, clock,
                                  delay, resp, io)
      IN \E mresp \in MarketReplies(e.ret = "true") :
           LET out == create_offer(self, token_file, environment, clock,
                                   delay, resp, io, mresp)
           IN /\ Idle /\ clock + delay <= MaxTime
              /\ Apply(out, delay)
                   /\ last' = Call("offer", out, out.market, out.ensured, resp,
                              io)

PublishOffer ==
  \E resp \in Replies(Refreshes), delay \in Delays(Refreshes) :
    \E io \in Saves(resp) :
      LET e == ensure_valid_token(self, token_file, environment, clock,
                                  delay, resp, io)
      IN \E mresp \in MarketReplies(e.ret = "true") :
           LET out == publish_offer(self, token_file, environment, clock,
                                    delay, resp, io, mresp)
           IN /\ Idle /\ clock + delay <= MaxTime
              /\ Apply(out, delay)
                   /\ last' = Call("publish", out, out.market, out.ensured, resp,
                              io)

GetAccountInfo ==
  \E resp \in Replies(Refreshes), delay \in Delays(Refreshes) :
    \E io \in Saves(resp) :
      LET e == ensure_valid_token(self, token_file, environment, clock,
                                  delay, resp, io)
      IN \E mresp \in MarketReplies(e.ret = "true") :
           LET out == get_account_info(self, token_file, environment, clock,
                                       delay, resp, io, mresp)
           IN /\ Idle /\ clock + delay <= MaxTime
              /\ Apply(out, delay)
                   /\ last' = Call("account", out, out.market, out.ensured, resp,
                              io)

\* the caller takes the result of the call
Return ==
  /\ ~Idle
  /\ last' = NoCall
  /\ UNCHANGED <<access_token, refresh_token, token_expires_at, environment,
                 token_file, clock, args, result, inventory_db>>

\* time passes between two calls
Tick ==
  /\ Idle
  /\ clock < MaxTime
  /\ clock' = clock + 1
  /\ UNCHANGED <<access_token, refresh_token, token_expires_at, environment,
                 token_file, last, args, result, inventory_db>>

\* The token lifecycle: the calls that exchange, refresh and check the token.
Next ==
  \/ ExchangeCode
  \/ RefreshAccessToken
  \/ EnsureValidToken
  \/ Return
  \/ Tick

Spec == Init /\ [][Next]_vars

\* The authenticated marketplace calls of a process that starts from the
\* token file it finds.
NextCalls ==
  \/ CreateInventoryItem
  \/ CreateOffer
  \/ PublishOffer
  \/ GetAccountInfo
  \/ Return
  \/ Tick

SpecCalls == Init /\ [][NextCalls]_vars

\* ================================================================ properties
MarketOps == {"inventory", "offer", "publish", "account"}

\* every input a later ensure_valid_token call can meet
LaterTimes == clock..(MaxTime + MaxExpiresIn + MaxDelay)

\* ensure_valid_token, called at time t in the present state, returns ret and
\* sends no request, whatever the endpoint and the disk would do
WouldReturnQuietly(t, ret) ==
  \A resp \in RefreshResponses, io \in SaveOutcomes, delay \in 0..MaxDelay :
    LET e == ensure_valid_token(self, token_file, environment, t, delay,
                                resp, io)
    IN e.ret = ret /\ e.oauth = 0

\* C1: whenever the manager holds an access token whose expires_at is
\* strictly in the future, ensure_valid_token returns true and sends no
\* HTTP request, whatever calls came before.
C1_ValidTokenNoHttp ==
  (last.op = "ensure" /\ last.pre.valid)
    => (last.ret = "true" /\ last.oauth = 0)

C1_Witness ==
  /\ last.op = "ensure"
  /\ last.pre.valid
  /\ last.ret = "true"
  /\ refresh_token # 0

\* C2: with no access token in memory and a persisted token whose expires_at
\* is in the past and whose refresh_token is present, one ensure_valid_token
\* call sends exactly one refresh request.
C2_PersistedExpiredOneRefresh ==
  (last.op = "ensure" /\ ~last.pre.held /\ last.pre.persisted_expired)
    => last.oauth = 1

C2_Witness ==
  /\ last.op = "ensure"
  /\ last.pre.notoken
  /\ last.pre.persisted_expired
  /\ last.oauth = 1

\* the last call was an ensure_valid_token call that found the token expired
\* with a refresh token and got the status st from the OAuth endpoint
RefreshedWith(st) ==
  /\ last.op = "ensure"
  /\ last.pre.expired
  /\ last.pre.refreshable
  /\ last.oauth = 1
  /\ last.resp.status = st

\* the manager is Valid until the expiry the reply granted
ValidAsGranted ==
  /\ last.ret = "true"
  /\ token_expires_at = Naive(clock + ExpiresIn(last.resp))
  /\ \A t \in LaterTimes :
       t < token_expires_at.t => WouldReturnQuietly(t, "true")

\* C3 as stated: an expired token with a refresh token and an HTTP 200 reply
\* make the manager Valid: true is returned, expires_at is the time of the
\* refresh plus expires_in (7200 by default), later calls before it return
\* true without a request.
C3_Refresh200MakesValid == RefreshedWith(200) => ValidAsGranted

\* C3 amended: the same, when the 200 reply is a JSON object with a non-empty
\* access_token and an absent or numeric expires_in, and the token file could
\* be written.
C3_WellFormedRefreshMakesValid ==
  ( /\ RefreshedWith(200)
    /\ last.resp.body = "json"
    /\ last.resp.access_token # 0
    /\ last.resp.ein_kind # "bad"
    /\ last.io = "ok" ) => ValidAsGranted

C3_Witness ==
  /\ RefreshedWith(200)
  /\ last.resp.body = "json"
  /\ last.resp.access_token # 0
  /\ last.resp.ein_kind = "number"
  /\ last.resp.expires_in > 0
  /\ last.io = "ok"
  /\ last.ret = "true"

\* C4: an expired token with a refresh token and an HTTP 400 reply: false is
\* returned, the token file is not rewritten, and a following call that gets
\* 400 again returns false again.
C4_Refresh400 ==
  RefreshedWith(400) =>
    /\ last.ret = "false"
    /\ last.saves = 0
    /\ ~last.rewrote
    /\ \A t \in LaterTimes, delay \in 0..MaxDelay :
         LET e == ensure_valid_token(self, token_file, environment, t, delay,
                    OAuthReply(400, "json", 0, 0, "absent", 0), "ok")
         IN e.ret = "false" /\ e.saves = 0 /\ e.file = token_file

C4_Witness ==
  /\ RefreshedWith(400)
  /\ last.ret = "false"
  /\ token_file.kind = "tokens"

\* C5: with no token in memory and no token file, ensure_valid_token returns
\* false, stays in NoToken and sends no request, and so does every later call
\* until a code exchange succeeds.
C5_NoTokenUntilExchange ==
  /\ (last.op = "ensure" /\ last.pre.notoken /\ last.pre.nofile)
       => /\ last.ret = "false"
          /\ last.oauth = 0
          /\ self = EmptySlot
          /\ token_file.kind = "absent"
  /\ ( /\ last.op \in {"exchange", "refresh"}
       /\ last.pre.notoken
       /\ last.pre.nofile
       /\ last.ret # "token_data" )
       => WouldReturnQuietly(clock, "false")

\* C6: an expired token and no refresh token: ensure_valid_token returns
\* false without any network call.
C6_ExpiredNoRefreshToken ==
  (last.op = "ensure" /\ last.pre.expired /\ ~last.pre.refreshable)
    => (last.ret = "false" /\ last.oauth = 0)

C6_Witness ==
  /\ last.op = "ensure"
  /\ last.pre.expired
  /\ ~last.pre.refreshable
  /\ last.pre.held
  /\ last.ret = "false"

\* the token file holds exactly the in-memory token
FileMatchesSlot ==
  /\ token_file.kind = "tokens"
  /\ token_file.access_token = access_token
  /\ token_file.refresh_token = refresh_token
  /\ token_file.expires_at = isoformat(token_expires_at)

\* C7: after an exchange_code_for_token or refresh_access_token call that
\* changed the in-memory token, successful or not, the token file holds the
\* in-memory access_token, refresh_token and expires_at.
C7_PersistedAfterEveryMutation ==
  (last.op \in {"exchange", "refresh"} /\ last.changed) => FileMatchesSlot

\* C8: ensure_valid_token, refresh_access_token and exchange_code_for_token
\* never raise, whatever the endpoint answers and whatever the token file
\* holds.
C8_NoExceptionPropagates ==
  last.op \in {"ensure", "refresh", "exchange"} => last.ret # "raise"

\* C9: a marketplace request is sent only after ensure_valid_token returned
\* true in the same operation; when it returned false no request is sent and
\* the operation returns the 'No valid eBay token' failure.
C9_RequestOnlyWithValidToken ==
  last.op \in MarketOps =>
    /\ last.market > 0 => last.ensured = "true"
    /\ last.ensured = "false" => (last.market = 0 /\ last.ret = "no_token")

C9_Witness ==
  /\ last.op = "offer"
  /\ last.ensured = "false"
  /\ last.ret = "no_token"
  /\ last.pre.held

C9_WitnessSent ==
  /\ last.op \in MarketOps
  /\ last.market = 1
  /\ last.ensured = "true"

\* C10: every wrapper sends at most one request to its endpoint and at most
\* one token refresh, and always returns a result object.
C10_TryOnceReturnResult ==
  last.op \in MarketOps =>
    /\ last.market <= 1
    /\ last.oauth <= 1
    /\ last.ret \in {"success", "failure", "no_token"}

\* ====================================================== listing functions
\* The functions below belong to src/ebay_art_analyzer.py,
\* src/ebay_api_integration.py, src/ebay_listing_automation.py and
\* src/demo.py.  They read their arguments only.  Each is checked under a
\* specification of its own whose initial states range over the arguments.

\* The token state of a process that only calls listing functions.
NoTokenState ==
  /\ access_token = 0
  /\ refresh_token = 0
  /\ token_expires_at = NoneTime
  /\ environment = "sandbox"
  /\ token_file = AbsentFile
  /\ clock = 0
  /\ last = NoCall

TokenVars ==
  <<access_token, refresh_token, token_expires_at, environment, token_file,
    clock, last>>

\* ------------------------------------------------ Python str operations
UpperCase == "ABCDEFGHIJKLMNOPQRSTUVWXYZ"
LowerCase == "abcdefghijklmnopqrstuvwxyz"
CharAt(s, i) == SubSeq(s, i, i)

\* the lower-case letter of every upper-case letter
LowerOf ==
  LET at == [i \in 1..Len(UpperCase) |-> CharAt(UpperCase, i)]
  IN [c \in {at[i] : i \in 1..Len(UpperCase)} |->
        CharAt(LowerCase, CHOOSE i \in 1..Len(UpperCase) : at[i] = c)]

LowerChar(c) == IF c \in DOMAIN LowerOf THEN LowerOf[c] ELSE c

\* s.lower()
RECURSIVE lower(_)
lower(s) ==
  IF Len(s) = 0 THEN "" ELSE LowerChar(CharAt(s, 1)) \o lower(Tail(s))

\* s.replace(old, new) for a one-character old
RECURSIVE replace(_, _, _)
replace(s, old, new) ==
  IF Len(s) = 0 THEN ""
  ELSE (IF CharAt(s, 1) = old THEN new ELSE CharAt(s, 1))
       \o replace(Tail(s), old, new)

\* sub in s
In(sub, s) ==
  \E i \in 1..(Len(s) - Len(sub) + 1) : SubSeq(s, i, i + Len(sub) - 1) = sub

\* d.get(key, default) for a dict with string keys
get(d, key, default) == IF key \in DOMAIN d THEN d[key] ELSE default

Least(S) == CHOOSE i \in S : \A j \in S : i <= j

\* --------------------------------------------- EbayArtAnalyzer: pricing
\* _load_pricing_database (lines 105-140).  The multipliers are decimal
\* fractions with one digit: they are held in tenths (1.5 is 15).  The base
\* prices are whole dollars, in the order of the dict.
size_multipliers ==
  [miniature |-> 5, small |-> 8, medium |-> 10, large |-> 15,
   oversized |-> 20]

condition_multipliers ==
  [mint |-> 12, excellent |-> 10, very_good |-> 8, good |-> 6, fair |-> 4,
   poor |-> 2]

medium_base_prices ==
  << <<"oil_painting", 500>>, <<"acrylic_painting", 350>>,
     <<"watercolor", 250>>, <<"print", 150>>, <<"photograph", 200>>,
     <<"drawing", 180>>, <<"sculpture", 600>>, <<"mixed_media", 400>>,
     <<"digital", 100>> >>

authenticity_multipliers ==
  [signed |-> 15, numbered |-> 13, certificate |-> 20, provenance |-> 25]

\* lines 240-247 with the containment test turned round (medium in key)
base_price_reversed_match(medium) ==
  LET medium_key == lower(medium)
      hits == {i \in 1..Len(medium_base_prices) :
                 In(medium_key, medium_base_prices[i][1])}
  IN IF hits = {} THEN 250 ELSE medium_base_prices[Least(hits)][2]

\* lines 240-247: the first key of the table that occurs in the lower-cased
\* medium with its spaces replaced by "_"; 250 when none does.  In dollars.
base_price(medium) ==
  LET medium_key == replace(lower(medium), " ", "_")
      hits == {i \in 1..Len(medium_base_prices) :
                 In(medium_base_prices[i][1], medium_key)}
  IN IF hits = {} THEN 250 ELSE medium_base_prices[Least(hits)][2]

\* lines 250-252, in tenths
size_mult(size_category) == get(size_multipliers, size_category, 10)

\* lines 255-257, in tenths
condition_mult(condition) ==
  get(condition_multipliers, lower(condition), 8)

\* lines 260-264 with the certificate factor replacing the signature factor
auth_mult_replacing(signature_present, authenticity_markers) ==
  IF \E k \in 1..Len(authenticity_markers) :
       In("certificate", lower(authenticity_markers[k]))
  THEN 130
  ELSE IF signature_present THEN 10 * authenticity_multipliers.signed
       ELSE 100

\* lines 260-264, in hundredths: 1.0, times 1.5 for a signature, times 1.3
\* for a marker that holds "certificate"
auth_mult(signature_present, authenticity_markers) ==
  LET signed == IF signature_present
                THEN 10 * authenticity_multipliers.signed ELSE 100
  IN IF \E k \in 1..Len(authenticity_markers) :
          In("certificate", lower(authenticity_markers[k]))
     THEN (signed * 13) \div 10
     ELSE signed

\* line 267, in units of 0.0001 dollar
estimated_value(analysis) ==
  base_price(analysis.medium) * size_mult(analysis.size_category)
    * condition_mult(analysis.condition)
    * auth_mult(analysis.signature_present, analysis.authenticity_markers)

\* round(x, 2) of an amount x held in units of 0.00001 dollar, in cents.
\* The amounts are products of binary floating-point numbers: one that is
\* exactly halfway between two cents in decimal lands a hair on either side
\* of the half, and tie (0 or 1) is the side it lands on.
round(x, tie) ==
  LET cents == x \div 1000
      rest == x % 1000
  IN IF rest > 500 THEN cents + 1
     ELSE IF rest < 500 THEN cents
     ELSE cents + tie

\* lines 238-280 with the factors of the starting bid and the buy-it-now
\* price exchanged
calculate_pricing_swapped_bids(analysis, tie) ==
  LET value == estimated_value(analysis)
  IN [fn |-> "calculate_pricing",
      base_price |-> base_price(analysis.medium),
      size_mult |-> size_mult(analysis.size_category),
      condition_mult |-> condition_mult(analysis.condition),
      auth_mult |-> auth_mult(analysis.signature_present,
                              analysis.authenticity_markers),
      estimated_value |-> value,
      min_price |-> round(value * 7, tie[1]),
      max_price |-> round(value * 13, tie[2]),
      starting_bid |-> round(value * 11, tie[3]),
      buy_now |-> round(value * 3, tie[4])]

\* lines 238-280 with the buy-it-now price set above the range
calculate_pricing_buy_now_high(analysis, tie) ==
  LET value == estimated_value(analysis)
  IN [fn |-> "calculate_pricing",
      base_price |-> base_price(analysis.medium),
      size_mult |-> size_mult(analysis.size_category),
      condition_mult |-> condition_mult(analysis.condition),
      auth_mult |-> auth_mult(analysis.signature_present,
                              analysis.authenticity_markers),
      estimated_value |-> value,
      min_price |-> round(value * 7, tie[1]),
      max_price |-> round(value * 13, tie[2]),
      starting_bid |-> round(value * 3, tie[3]),
      buy_now |-> round(value * 15, tie[4])]

\* calculate_pricing (lines 238-280).  The four amounts it returns are in
\* cents; the record also holds the locals it computed them from.
calculate_pricing(analysis, tie) ==
  LET value == estimated_value(analysis)
  IN [fn |-> "calculate_pricing",
      base_price |-> base_price(analysis.medium),
      size_mult |-> size_mult(analysis.size_category),
      condition_mult |-> condition_mult(analysis.condition),
      auth_mult |-> auth_mult(analysis.signature_present,
                              analysis.authenticity_markers),
      estimated_value |-> value,
      min_price |-> round(value * 7, tie[1]),
      max_price |-> round(value * 13, tie[2]),
      starting_bid |-> round(value * 3, tie[3]),
      buy_now |-> round(value * 11, tie[4])]

\* The analyses priced: a medium for every key of the price table and some
\* that hold none, every size and condition of the tables in the spellings
\* the analysis may carry, and one that is in no table.
PricedMediums ==
  {"Oil Painting", "Oil on canvas", "Acrylic Painting", "Acrylic on Canvas",
   "Watercolor",
   "Screen Print", "Photograph", "Drawing", "Sculpture", "Mixed Media",
   "Digital", "Digital Print", "Lithograph", "Found Object Assemblage"}

SizeCategories ==
  {"miniature", "small", "medium", "large", "oversized", "Medium", "unknown"}

Conditions ==
  {"Mint", "Excellent", "very_good", "Very Good", "Good", "Fair", "Poor",
   "Unknown"}

MarkerLists ==
  {<<>>, <<"Artist signature", "Gallery stamp on reverse">>,
   <<"Certificate of Authenticity">>, <<"Gallery stamp", "COA certificate">>}

\* the fields of ArtworkAnalysis that calculate_pricing reads
ArtworkAnalysis(medium, condition, size_category, signature_present, authenticity_markers) ==
  [fn |-> "calculate_pricing", medium |-> medium, condition |-> condition,
   size_category |-> size_category,
   signature_present |-> signature_present,
   authenticity_markers |-> authenticity_markers]

PricedAnalyses ==
  {ArtworkAnalysis(m, c, s, g, a) :
     m \in PricedMediums, c \in Conditions, s \in SizeCategories,
     g \in BOOLEAN, a \in MarkerLists}

Ties == [1..4 -> {0, 1}]

InitPricing ==
  /\ NoTokenState
  /\ inventory_db = NoDatabase
  /\ args \in PricedAnalyses
  /\ result = NotCalled

CalculatePricing ==
  /\ result = NotCalled
  /\ \E tie \in Ties : result' = calculate_pricing(args, tie)
  /\ UNCHANGED <<TokenVars, args, inventory_db>>

NextPricing == CalculatePricing

SpecPricing == InitPricing /\ [][NextPricing]_vars

Priced == result # NotCalled

\* the same analysis with other authenticity attributes
Unsigned(analysis) ==
  [analysis EXCEPT !.signature_present = FALSE, !.authenticity_markers = <<>>]

HasCertificate(analysis) ==
  \E k \in 1..Len(analysis.authenticity_markers) :
    In("certificate", lower(analysis.authenticity_markers[k]))

\* C11: for every medium, size category and condition of the fixed tables
\* and of their defaults, signed or not, with or without a certificate
\* marker, the four amounts calculate_pricing returns are non-negative and
\* buy_it_now is greater than starting_bid.
C11_NonNegativeAndBuyNowAboveBid ==
  Priced =>
    /\ result.min_price >= 0
    /\ result.max_price >= 0
    /\ result.starting_bid >= 0
    /\ result.buy_now >= 0
    /\ result.buy_now > result.starting_bid

\* the cheapest combination of the tables has been priced: digital,
\* miniature, poor, unsigned, no certificate
C11_Witness ==
  /\ Priced
  /\ result.base_price = 100
  /\ result.size_mult = 5
  /\ result.condition_mult = 2
  /\ result.auth_mult = 100
  /\ result.starting_bid = 300
  /\ result.buy_now = 1100

\* C12: for medium "Screen Print", condition "Excellent", size category
\* "medium", a signature and no authenticity marker, calculate_pricing uses
\* base price 150, size multiplier 1.0, condition multiplier 1.0 and
\* authenticity multiplier 1.5 and returns min 157.50, max 292.50,
\* starting bid 67.50 and buy-it-now 247.50.
ScreenPrintExample ==
  ArtworkAnalysis("Screen Print", "Excellent", "medium", TRUE, <<>>)

C12_ScreenPrintExample ==
  (Priced /\ args = ScreenPrintExample) =>
    /\ result.base_price = 150
    /\ result.size_mult = 10
    /\ result.condition_mult = 10
    /\ result.auth_mult = 150
    /\ result.min_price = 15750
    /\ result.max_price = 29250
    /\ result.starting_bid = 6750
    /\ result.buy_now = 24750

C12_Witness == Priced /\ args = ScreenPrintExample

\* C13: the base price is found by substring match against the medium: a
\* medium that contains "oil" (such as "Oil on canvas") is priced from 500,
\* one that contains "print" from 150, and one that matches no key of the
\* table from the default 250.
MatchesNoKey(medium) ==
  \A i \in 1..Len(medium_base_prices) :
    ~In(medium_base_prices[i][1], replace(lower(medium), " ", "_"))

C13_BasePriceBySubstring ==
  Priced =>
    /\ In("oil", lower(args.medium)) => result.base_price = 500
    /\ (In("print", lower(args.medium)) /\ ~In("oil", lower(args.medium)))
         => result.base_price = 150
    /\ MatchesNoKey(args.medium) => result.base_price = 250

\* C14: the authenticity multipliers compound: the estimated value is that
\* of the same work unsigned and without certificate, times 1.5 when
\* signature_present and times a further 1.3 when a marker contains
\* "certificate" in any letter case: 1.95 for both, 1.0 for neither.
\* (AuthenticityFactor is in hundredths; the value of the unsigned work is
\* a whole number of cents.)
AuthenticityFactor(analysis) ==
  CASE analysis.signature_present /\ HasCertificate(analysis) -> 195
    [] analysis.signature_present /\ ~HasCertificate(analysis) -> 150
    [] ~analysis.signature_present /\ HasCertificate(analysis) -> 130
    [] OTHER -> 100

C14_AuthenticityCompounds ==
  Priced =>
    /\ result.auth_mult = AuthenticityFactor(args)
    /\ result.estimated_value
         = (estimated_value(Unsigned(args)) \div 100)
             * AuthenticityFactor(args)

\* a signed work whose certificate marker is capitalised has been priced
C14_Witness ==
  /\ Priced
  /\ args.signature_present
  /\ args.authenticity_markers = <<"Certificate of Authenticity">>
  /\ result.auth_mult = 195

\* C15: for every input, after rounding to 2 decimals, starting_bid is
\* below suggested_min and the four amounts are ordered
\* starting_bid < suggested_min < buy_it_now < suggested_max.
C15_PriceOrdering ==
  Priced =>
    /\ result.starting_bid < result.min_price
    /\ result.min_price < result.buy_now
    /\ result.buy_now < result.max_price

\* an analysis whose suggested minimum is a decimal half cent has been
\* priced with the half rounded down
C15_Witness ==
  /\ Priced
  /\ (result.estimated_value * 7) % 1000 = 500
  /\ result.min_price = (result.estimated_value * 7) \div 1000

\* ------------------------------------------------------ title truncation
MaxTitleLen == 90

\* s[:n]
Prefix(s, n) == IF Len(s) <= n THEN s ELSE SubSeq(s, 1, n)

\* n copies of s
RECURSIVE Repeat(_, _)
Repeat(s, n) ==
  IF n = 0 THEN ""
  ELSE IF n % 2 = 0 THEN LET half == Repeat(s, n \div 2) IN half \o half
  ELSE s \o Repeat(s, n - 1)

\* a text of n characters, no two neighbours alike
Text(n) == Prefix(Repeat(LowerCase, (n \div Len(LowerCase)) + 1), n)

\* _format_title with the cut made at the limit itself
format_title_cut_at_limit(title) ==
  IF Len(title) <= 80 THEN title ELSE Prefix(title, 80) \o "..."

\* EbayArtAnalyzer._format_title (ebay_art_analyzer.py lines 429-433)
_format_title(title) ==
  IF Len(title) <= 80 THEN title ELSE Prefix(title, 77) \o "..."

\* eBayAPIIntegration._convert_to_ebay_format, line 329: the title it
\* builds from the artist and the title of the product.  full_title is the
\* string before the cut.
convert_ebay_title(artist, title) ==
  LET full_title == artist \o " - " \o title
  IN [full_title |-> full_title,
      ebay_title |-> IF Len(full_title) > 80
                     THEN Prefix(full_title, 77) \o "..."
                     ELSE full_title]

\* eBayListingAutomation.listing_templates (ebay_listing_automation.py lines
\* 26-49): template['title_template'].format(**title_vars)
TemplateNames == {"contemporary", "vintage", "print", "photography"}

title_template(name, v) ==
  CASE name = "contemporary" ->
         v.artist \o " - " \o v.title \o " " \o v.medium \o " " \o v.year
    [] name = "vintage" ->
         "Vintage " \o v.artist \o " - " \o v.title \o " " \o v.year
    [] name = "print" ->
         v.artist \o " " \o v.title \o " Print " \o v.edition
    [] name = "photography" ->
         v.artist \o " - " \o v.title \o " Photograph " \o v.year

\* eBayListingAutomation.generate_listing_preview, lines 222-234
preview_ebay_title(template, title_vars) ==
  LET full_title == title_template(template, title_vars)
  IN [full_title |-> full_title,
      ebay_title |-> IF Len(full_title) > 80
                     THEN Prefix(full_title, 77) \o "..."
                     ELSE full_title]

Titles == {Text(n) : n \in 0..MaxTitleLen}
Artists == {"", "Banksy", "Jean-Michel Basquiat"}

FormatTitleArgs == {[fn |-> "_format_title", title |-> t] : t \in Titles}

ConvertArgs ==
  {[fn |-> "_convert_to_ebay_format", artist |-> a, title |-> t] :
     a \in Artists, t \in Titles}

PreviewArgs ==
  {[fn |-> "generate_listing_preview", template |-> n,
    title_vars |-> [artist |-> a, title |-> t, medium |-> "Screen Print",
                    year |-> "2008", edition |-> "450/500"]] :
     n \in TemplateNames, a \in Artists, t \in Titles}

InitTitle ==
  /\ NoTokenState
  /\ inventory_db = NoDatabase
  /\ args \in FormatTitleArgs \cup ConvertArgs \cup PreviewArgs
  /\ result = NotCalled

FormatTitle ==
  /\ result = NotCalled
  /\ args.fn = "_format_title"
  /\ result' = [fn |-> args.fn, full_title |-> args.title,
                ebay_title |-> _format_title(args.title)]
  /\ UNCHANGED <<TokenVars, args, inventory_db>>

ConvertToEbayFormat ==
  /\ result = NotCalled
  /\ args.fn = "_convert_to_ebay_format"
  /\ LET out == convert_ebay_title(args.artist, args.title)
     IN result' = [fn |-> args.fn, full_title |-> out.full_title,
                   ebay_title |-> out.ebay_title]
  /\ UNCHANGED <<TokenVars, args, inventory_db>>

GenerateListingPreview ==
  /\ result = NotCalled
  /\ args.fn = "generate_listing_preview"
  /\ LET out == preview_ebay_title(args.template, args.title_vars)
     IN result' = [fn |-> args.fn, full_title |-> out.full_title,
                   ebay_title |-> out.ebay_title]
  /\ UNCHANGED <<TokenVars, args, inventory_db>>

NextTitle ==
  \/ FormatTitle
  \/ ConvertToEbayFormat
  \/ GenerateListingPreview

SpecTitle == InitTitle /\ [][NextTitle]_vars

Titled == result # NotCalled

\* C16: in _format_title, _convert_to_ebay_format and
\* generate_listing_preview a title longer than 80 characters comes out 80
\* characters long, ending in "..." and beginning with the first 77
\* characters of the input; a title of at most 80 characters comes out
\* unchanged.  (The title is the string the function is about to cut: the
\* argument of _format_title, "artist - title" in _convert_to_ebay_format,
\* the filled template in generate_listing_preview.)
C16_TitleTruncation ==
  Titled =>
    IF Len(result.full_title) > 80
    THEN /\ Len(result.ebay_title) = 80
         /\ SubSeq(result.ebay_title, 78, 80) = "..."
         /\ SubSeq(result.ebay_title, 1, 77)
              = SubSeq(result.full_title, 1, 77)
    ELSE result.ebay_title = result.full_title

\* a filled template of 81 characters has been cut by generate_listing_preview
C16_Witness ==
  /\ Titled
  /\ Len(result.full_title) = 81
  /\ Len(result.ebay_title) = 80
  /\ result.fn = "generate_listing_preview"

\* ------------------------------------- EbayArtAnalyzer.determine_category
\* lines 214-236 with the test for prints made before the one for oil
determine_category_print_first(medium) ==
  LET medium_lower == lower(medium)
  IN IF In("print", medium_lower) \/ In("lithograph", medium_lower)
     THEN [id |-> 360010003, name |-> "Art > Prints > Lithographs"]
     ELSE IF In("oil", medium_lower)
     THEN [id |-> 20125, name |-> "Art > Paintings > Oil Paintings"]
     ELSE IF In("acrylic", medium_lower)
     THEN [id |-> 20126, name |-> "Art > Paintings > Acrylic Paintings"]
     ELSE IF In("watercolor", medium_lower)
     THEN [id |-> 20127, name |-> "Art > Paintings > Watercolor Paintings"]
     ELSE IF In("photograph", medium_lower)
     THEN [id |-> 360010011, name |-> "Art > Photographs > Contemporary"]
     ELSE IF In("drawing", medium_lower) \/ In("pencil", medium_lower)
     THEN [id |-> 20130, name |-> "Art > Drawings > Pencil Drawings"]
     ELSE IF In("sculpture", medium_lower)
     THEN [id |-> 553, name |-> "Art > Sculptures > Contemporary"]
     ELSE IF In("digital", medium_lower)
     THEN [id |-> 360010016, name |-> "Art > Digital Art > Digital Prints"]
     ELSE [id |-> 20128, name |-> "Art > Paintings > Mixed Media"]

\* determine_category (lines 214-236), of analysis.medium
determine_category(medium) ==
  LET medium_lower == lower(medium)
  IN IF In("oil", medium_lower)
     THEN [id |-> 20125, name |-> "Art > Paintings > Oil Paintings"]
     ELSE IF In("acrylic", medium_lower)
     THEN [id |-> 20126, name |-> "Art > Paintings > Acrylic Paintings"]
     ELSE IF In("watercolor", medium_lower)
     THEN [id |-> 20127, name |-> "Art > Paintings > Watercolor Paintings"]
     ELSE IF In("print", medium_lower) \/ In("lithograph", medium_lower)
     THEN [id |-> 360010003, name |-> "Art > Prints > Lithographs"]
     ELSE IF In("photograph", medium_lower)
     THEN [id |-> 360010011, name |-> "Art > Photographs > Contemporary"]
     ELSE IF In("drawing", medium_lower) \/ In("pencil", medium_lower)
     THEN [id |-> 20130, name |-> "Art > Drawings > Pencil Drawings"]
     ELSE IF In("sculpture", medium_lower)
     THEN [id |-> 553, name |-> "Art > Sculptures > Contemporary"]
     ELSE IF In("digital", medium_lower)
     THEN [id |-> 360010016, name |-> "Art > Digital Art > Digital Prints"]
     ELSE [id |-> 20128, name |-> "Art > Paintings > Mixed Media"]

\* The mediums categorised: one or two words, in either order and in mixed
\* letter case, among them every word the function looks for, and the
\* three mediums the specification names.
MediumWords ==
  {"Oil", "acrylic", "Watercolor", "print", "Lithograph", "photograph",
   "Drawing", "pencil", "Sculpture", "digital", "canvas", "Foil",
   "assemblage"}

CategorisedMediums ==
  MediumWords
    \cup {a \o " " \o b : a \in MediumWords, b \in MediumWords}
    \cup {"Oil on canvas", "Gelatin silver photograph",
          "Found Object Assemblage"}

InitCategory ==
  /\ NoTokenState
  /\ inventory_db = NoDatabase
  /\ args \in {[fn |-> "determine_category", medium |-> m] :
                 m \in CategorisedMediums}
  /\ result = NotCalled

DetermineCategory ==
  /\ result = NotCalled
  /\ LET out == determine_category(args.medium)
     IN result' = [fn |-> args.fn, id |-> out.id, name |-> out.name]
  /\ UNCHANGED <<TokenVars, args, inventory_db>>

NextCategory == DetermineCategory

SpecCategory == InitCategory /\ [][NextCategory]_vars

Categorised == result # NotCalled

\* the id of the first entry of order one of whose words occurs in the
\* lower-cased medium; fallback when there is none
FirstMatch(order, medium, fallback) ==
  LET hits == {i \in 1..Len(order) :
                 \E w \in order[i][1] : In(w, lower(medium))}
  IN IF hits = {} THEN fallback ELSE order[Least(hits)][2]

OilId == 20125
PhotographId == 360010011
MixedMediaId == 20128

ExamplesCategorised ==
  /\ args.medium = "Oil on canvas" => result.id = OilId
  /\ args.medium = "Gelatin silver photograph" => result.id = PhotographId
  /\ args.medium = "Found Object Assemblage" => result.id = MixedMediaId

\* C17 as stated: the first match in the order oil, acrylic, print,
\* photograph, drawing, sculpture, digital decides the category, a medium
\* that matches none of them is mixed media, and "Oil on canvas",
\* "Gelatin silver photograph" and "Found Object Assemblage" get the oil,
\* the photograph and the mixed-media id.
StatedOrder ==
  << <<{"oil"}, OilId>>, <<{"acrylic"}, 20126>>, <<{"print"}, 360010003>>,
     <<{"photograph"}, PhotographId>>, <<{"drawing"}, 20130>>,
     <<{"sculpture"}, 553>>, <<{"digital"}, 360010016>> >>

C17_CategoryByStatedOrder ==
  Categorised =>
    /\ result.id = FirstMatch(StatedOrder, args.medium, MixedMediaId)
    /\ ExamplesCategorised

\* C17, amended: the first match in the order oil, acrylic, watercolor,
\* print or lithograph, photograph, drawing or pencil, sculpture, digital
\* decides the category, a medium that matches none of them is mixed media,
\* and the three named mediums get the oil, the photograph and the
\* mixed-media id.
CodeOrder ==
  << <<{"oil"}, OilId>>, <<{"acrylic"}, 20126>>, <<{"watercolor"}, 20127>>,
     <<{"print", "lithograph"}, 360010003>>,
     <<{"photograph"}, PhotographId>>, <<{"drawing", "pencil"}, 20130>>,
     <<{"sculpture"}, 553>>, <<{"digital"}, 360010016>> >>

C17_CategoryByOrderedMatch ==
  Categorised =>
    /\ result.id = FirstMatch(CodeOrder, args.medium, MixedMediaId)
    /\ ExamplesCategorised

\* a medium that holds both "print" and "oil", print first, is an oil
\* painting
C17_Witness ==
  /\ Categorised
  /\ args.medium = "print Oil"
  /\ result.id = OilId

\* ---------------------------------------- EbayArtAnalyzer.export_to_csv
MaxListings == 2
MaxDescriptionLen == 4002

\* sep.join(parts)
RECURSIVE join(_, _)
join(sep, parts) ==
  IF Len(parts) = 0 THEN ""
  ELSE IF Len(parts) = 1 THEN parts[1]
  ELSE parts[1] \o sep \o join(sep, Tail(parts))

\* a description of n characters
Description(n) == Text(n)

fieldnames ==
  <<"Title", "Subtitle", "Category ID", "Condition", "Start Price",
    "Buy It Now Price", "Description", "PicURL", "Quantity", "Duration",
    "Location", "Payment Methods", "Shipping Service">>

\* the row of one listing (lines 479-493) with the description left whole
csv_row_whole_description(listing) ==
  [Title |-> listing.title,
   Subtitle |-> listing.subtitle,
   CategoryID |-> listing.category_id,
   Condition |-> listing.condition,
   StartPrice |-> listing.suggested_starting_bid,
   BuyItNowPrice |-> listing.buy_it_now_price,
   Description |-> listing.description,
   PicURL |-> "",
   Quantity |-> 1,
   Duration |-> 7,
   Location |-> "United States",
   PaymentMethods |-> join("|", listing.payment_methods),
   ShippingService |-> "USPS Priority Mail"]

\* the row of one listing, lines 479-493: the cell of every column (the
\* field names are the column names without their spaces)
csv_row(listing) ==
  [Title |-> listing.title,
   Subtitle |-> listing.subtitle,
   CategoryID |-> listing.category_id,
   Condition |-> listing.condition,
   StartPrice |-> listing.suggested_starting_bid,
   BuyItNowPrice |-> listing.buy_it_now_price,
   Description |-> Prefix(listing.description, 4000),
   PicURL |-> "",
   Quantity |-> 1,
   Duration |-> 7,
   Location |-> "United States",
   PaymentMethods |-> join("|", listing.payment_methods),
   ShippingService |-> "USPS Priority Mail"]

\* export_to_csv (lines 464-495): the file it writes, as the header row
\* and the rows that follow it
export_to_csv(listings) ==
  [header |-> fieldnames,
   rows |-> [i \in 1..Len(listings) |-> csv_row(listings[i])]]

\* the fields of EbayListing that export_to_csv reads; prices in cents
EbayListing(title, description) ==
  [title |-> title,
   subtitle |-> "Contemporary Street Art Screen Print",
   description |-> description,
   category_id |-> 360010003,
   condition |-> "Used",
   suggested_starting_bid |-> 6750,
   buy_it_now_price |-> 24750,
   payment_methods |-> <<"PayPal", "Credit Card", "Debit Card">>]

DescriptionLengths == {0, 3999, 4000, 4001, MaxDescriptionLen}

ExportedListings ==
  {EbayListing(t, Description(n)) :
     t \in {"Hope", "Thrower"}, n \in DescriptionLengths}

ListingLists ==
  UNION {[1..n -> ExportedListings] : n \in 0..MaxListings}

InitCsv ==
  /\ NoTokenState
  /\ inventory_db = NoDatabase
  /\ args \in {[fn |-> "export_to_csv", listings |-> l] : l \in ListingLists}
  /\ result = NotCalled

ExportToCsv ==
  /\ result = NotCalled
  /\ LET out == export_to_csv(args.listings)
     IN result' = [fn |-> args.fn, header |-> out.header, rows |-> out.rows]
  /\ UNCHANGED <<TokenVars, args, inventory_db>>

NextCsv == ExportToCsv

SpecCsv == InitCsv /\ [][NextCsv]_vars

Exported == result # NotCalled

\* C18: export_to_csv writes the header row with the 13 columns Title,
\* Subtitle, Category ID, Condition, Start Price, Buy It Now Price,
\* Description, PicURL, Quantity, Duration, Location, Payment Methods,
\* Shipping Service in that order, then one row for every listing in the
\* order of the input, and the Description cell of a row holds the first
\* 4000 characters of the listing's description, or all of it when it is
\* shorter.
C18_CsvHeaderRowsDescription ==
  Exported =>
    /\ Len(result.header) = 13
    /\ result.header[1] = "Title"
    /\ result.header[2] = "Subtitle"
    /\ result.header[3] = "Category ID"
    /\ result.header[4] = "Condition"
    /\ result.header[5] = "Start Price"
    /\ result.header[6] = "Buy It Now Price"
    /\ result.header[7] = "Description"
    /\ result.header[8] = "PicURL"
    /\ result.header[9] = "Quantity"
    /\ result.header[10] = "Duration"
    /\ result.header[11] = "Location"
    /\ result.header[12] = "Payment Methods"
    /\ result.header[13] = "Shipping Service"
    /\ Len(result.rows) = Len(args.listings)
    /\ \A i \in 1..Len(args.listings) :
         LET row == result.rows[i]
             listing == args.listings[i]
         IN /\ row.Title = listing.title
            /\ row.StartPrice = listing.suggested_starting_bid
            /\ row.BuyItNowPrice = listing.buy_it_now_price
            /\ Len(row.Description) <= 4000
            /\ Len(row.Description) <= Len(listing.description)
            /\ (Len(row.Description) < 4000
                  => row.Description = listing.description)
            /\ (Len(row.Description) > 0
                  => row.Description
                       = SubSeq(listing.description, 1,
                                Len(row.Description)))

\* two listings with different titles have been exported, the first with a
\* description of 4001 characters, of which its row holds 4000
C18_Witness ==
  /\ Exported
  /\ Len(args.listings) = 2
  /\ args.listings[1].title = "Thrower"
  /\ args.listings[2].title = "Hope"
  /\ Len(args.listings[1].description) = 4001
  /\ Len(result.rows[1].Description) = 4000

\* ------------------------------- eBayAPIIntegration._parse_ebay_error
MaxErrors == 2

\* JSON values as Python holds them.  A dict is the sequence of its
\* <<key, value>> pairs in the order of the document.
JNull == [kind |-> "null"]
JInt(n) == [kind |-> "int", val |-> n]
JStr(s) == [kind |-> "str", val |-> s]
JList(items) == [kind |-> "list", val |-> items]
JDict(pairs) == [kind |-> "dict", val |-> pairs]
\* what a body that is not JSON parses to: response.json() raises
NotJson == [kind |-> "invalid"]

HasKey(d, key) == \E i \in 1..Len(d.val) : d.val[i][1] = key

\* d.get(key, default) of a JSON dict
dict_get(d, key, default) ==
  IF HasKey(d, key)
  THEN d.val[CHOOSE i \in 1..Len(d.val) : d.val[i][1] = key][2]
  ELSE default

\* bool(v)
truthy(v) ==
  CASE v.kind = "null" -> FALSE
    [] v.kind = "int" -> v.val # 0
    [] v.kind = "str" -> Len(v.val) > 0
    [] v.kind \in {"list", "dict"} -> Len(v.val) > 0

\* str(v), as an f-string formats a null, a number or a string
str(v) ==
  CASE v.kind = "null" -> "None"
    [] v.kind = "int" -> ToString(v.val)
    [] v.kind = "str" -> v.val

\* the text of a JSON document
RECURSIVE dumps(_)
dumps(v) ==
  CASE v.kind = "null" -> "null"
    [] v.kind = "int" -> ToString(v.val)
    [] v.kind = "str" -> "\"" \o v.val \o "\""
    [] v.kind = "list" ->
         "[" \o join(", ", [i \in 1..Len(v.val) |-> dumps(v.val[i])]) \o "]"
    [] v.kind = "dict" ->
         "{" \o join(", ", [i \in 1..Len(v.val) |->
                              "\"" \o v.val[i][1] \o "\": "
                                \o dumps(v.val[i][2])])
             \o "}"

\* a requests.Response: status_code, text, and what json() makes of the text
Response(status_code, data) ==
  [status_code |-> status_code, text |-> dumps(data), data |-> data]

TextResponse(status_code, text) ==
  [status_code |-> status_code, text |-> text, data |-> NotJson]

\* lines 456 and 459
http_fallback(response) ==
  "HTTP " \o ToString(response.status_code) \o ": "
    \o Prefix(response.text, 200)

\* 'errors' in error_data (line 447): raised is the TypeError of a value
\* that is no container
contains_errors(error_data) ==
  CASE error_data.kind = "dict" ->
         [raised |-> FALSE, value |-> HasKey(error_data, "errors")]
    [] error_data.kind = "list" ->
         [raised |-> FALSE,
          value |-> \E i \in 1..Len(error_data.val) :
                      error_data.val[i] = JStr("errors")]
    [] error_data.kind = "str" ->
         [raised |-> FALSE, value |-> In("errors", error_data.val)]
    [] OTHER -> [raised |-> TRUE, value |-> FALSE]

\* lines 450-452 for one entry of the list: the piece appended to errors
\* (a JSON value: a message used as it is need not be a string)
error_piece(error) ==
  LET message == dict_get(error, "message", JStr("Unknown error"))
      error_id == dict_get(error, "errorId", JStr(""))
  IN IF truthy(error_id)
     THEN JStr(str(message) \o " (" \o str(error_id) \o ")")
     ELSE message

\* lines 448-453 for error_data['errors'] = errors_value.  Iterating a list
\* gives its entries, and an entry that is no dict has no get(); iterating
\* a dict or a string gives strings, which have no get() either, and none
\* at all when it is empty; a null or a number cannot be iterated; join()
\* raises on a piece that is no string.
joined_errors(errors_value) ==
  CASE errors_value.kind = "list" ->
         IF \E i \in 1..Len(errors_value.val) :
              errors_value.val[i].kind # "dict"
         THEN [raised |-> TRUE, value |-> ""]
         ELSE LET errors == [i \in 1..Len(errors_value.val) |->
                               error_piece(errors_value.val[i])]
              IN IF \E i \in 1..Len(errors) : errors[i].kind # "str"
                 THEN [raised |-> TRUE, value |-> ""]
                 ELSE [raised |-> FALSE,
                       value |-> join("; ", [i \in 1..Len(errors) |->
                                              errors[i].val])]
    [] errors_value.kind \in {"dict", "str"} ->
         IF Len(errors_value.val) > 0
         THEN [raised |-> TRUE, value |-> ""]
         ELSE [raised |-> FALSE, value |-> ""]
    [] OTHER -> [raised |-> TRUE, value |-> ""]

\* _parse_ebay_error (lines 445-459): what it returns, and whether an
\* exception leaves it
_parse_ebay_error(response) ==
  LET error_data == response.data
      has == contains_errors(error_data)
  IN IF error_data.kind = "invalid" \/ has.raised
     THEN [raised |-> FALSE, value |-> http_fallback(response)]
     ELSE IF ~has.value
     THEN [raised |-> FALSE, value |-> http_fallback(response)]
     ELSE IF error_data.kind # "dict"
     THEN [raised |-> FALSE, value |-> http_fallback(response)]
     ELSE LET out == joined_errors(dict_get(error_data, "errors", JNull))
          IN IF out.raised
             THEN [raised |-> FALSE, value |-> http_fallback(response)]
             ELSE [raised |-> FALSE, value |-> out.value]

\* The entries a list of errors may hold: eBay's {message, errorId} with a
\* numeric or a textual id, an empty or absent id, an absent or null
\* message, a long message, and an entry that is no mapping.
ErrorEntries ==
  {JDict(<< <<"errorId", JInt(25001)>>, <<"message", JStr("Invalid SKU")>> >>),
   JDict(<< <<"message", JStr("Invalid SKU")>>, <<"errorId", JStr("25001")>> >>),
   JDict(<< <<"message", JStr("Missing price")>>, <<"errorId", JStr("")>> >>),
   JDict(<< <<"message", JStr("Missing price")>> >>),
   JDict(<< <<"errorId", JStr("25002")>> >>),
   JDict(<< <<"message", JNull>> >>),
   JDict(<< <<"message", JStr(Text(210))>>, <<"errorId", JStr("1")>> >>),
   JStr("oops")}

ErrorLists == UNION {[1..n -> ErrorEntries] : n \in 0..MaxErrors}

\* bodies of the other shapes
OtherBodies ==
  {JDict(<< <<"error", JStr("invalid_token")>>,
            <<"error_description", JStr(Text(210))>> >>),
   JDict(<<>>),
   JDict(<< <<"errors", JNull>> >>),
   JDict(<< <<"errors", JInt(3)>> >>),
   JDict(<< <<"errors", JStr("Internal error")>> >>),
   JDict(<< <<"errors", JStr("")>> >>),
   JDict(<< <<"errors", JDict(<<>>)>> >>),
   JDict(<< <<"errors", JDict(<< <<"message", JStr("Invalid SKU")>> >>)>> >>),
   JList(<<JStr("errors")>>),
   JList(<<>>),
   JStr("upstream errors"),
   JInt(0),
   JNull}

FailedResponses ==
  {Response(s, JDict(<< <<"errors", JList(l)>> >>)) :
     s \in {400, 500}, l \in ErrorLists}
    \cup {Response(s, b) : s \in {400, 500}, b \in OtherBodies}
    \cup {TextResponse(s, t) :
            s \in {400, 500}, t \in {"", "Bad Gateway", Text(201)}}

InitError ==
  /\ NoTokenState
  /\ inventory_db = NoDatabase
  /\ args \in {[fn |-> "_parse_ebay_error", response |-> r] :
                 r \in FailedResponses}
  /\ result = NotCalled

ParseEbayError ==
  /\ result = NotCalled
  /\ LET out == _parse_ebay_error(args.response)
     IN result' = [fn |-> args.fn, raised |-> out.raised,
                   value |-> out.value]
  /\ UNCHANGED <<TokenVars, args, inventory_db>>

NextError == ParseEbayError

SpecError == InitError /\ [][NextError]_vars

Parsed == result # NotCalled

\* C19: for a body that holds a list of errors, _parse_ebay_error returns
\* the entries in order, joined by "; ", each as "message (errorId)", or as
\* the message alone when errorId is empty; for a body of any other shape
\* (not JSON, no errors key, no list under it, entries that are no
\* mappings) it returns "HTTP <status>: <first 200 characters of the
\* body>"; and it never raises.
IsErrorEntry(v) ==
  /\ v.kind = "dict"
  /\ HasKey(v, "message")
  /\ dict_get(v, "message", JNull).kind = "str"
  /\ dict_get(v, "errorId", JStr("")).kind \in {"str", "int"}

\* the body is a mapping whose errors key holds a list of entries
HoldsErrorList(data) ==
  /\ data.kind = "dict"
  /\ HasKey(data, "errors")
  /\ dict_get(data, "errors", JNull).kind = "list"
  /\ \A i \in 1..Len(dict_get(data, "errors", JNull).val) :
       IsErrorEntry(dict_get(data, "errors", JNull).val[i])

\* the body is none of that: no JSON, no mapping, no errors key, no list
\* under it, or a list with an entry that is no mapping
HoldsNoErrorList(data) ==
  \/ data.kind # "dict"
  \/ ~HasKey(data, "errors")
  \/ dict_get(data, "errors", JNull).kind # "list"
  \/ \E i \in 1..Len(dict_get(data, "errors", JNull).val) :
       dict_get(data, "errors", JNull).val[i].kind # "dict"

EntryText(v) ==
  LET message == dict_get(v, "message", JNull).val
      error_id == dict_get(v, "errorId", JStr(""))
  IN IF error_id = JStr("") THEN message
     ELSE message \o " (" \o str(error_id) \o ")"

C19_ErrorsJoinedOrHttpFallback ==
  Parsed =>
    LET data == args.response.data
    IN /\ ~result.raised
       /\ HoldsErrorList(data) =>
            result.value
              = join("; ", [i \in 1..Len(dict_get(data, "errors", JNull).val)
                              |-> EntryText(dict_get(data, "errors",
                                                     JNull).val[i])])
       /\ HoldsNoErrorList(data) =>
            result.value
              = "HTTP " \o ToString(args.response.status_code) \o ": "
                  \o Prefix(args.response.text, 200)

\* ------------------------------------------------ demo.generate_listing
\* str(x) of a float x that is an amount of whole cents (given in cents):
\* the shortest decimal that reads back as x, with at least one decimal
str_price(cents) ==
  LET dollars == ToString(cents \div 100)
      rest == cents % 100
  IN IF rest % 10 = 0 THEN dollars \o "." \o ToString(rest \div 10)
     ELSE IF rest < 10 THEN dollars \o ".0" \o ToString(rest)
     ELSE dollars \o "." \o ToString(rest)

\* s.split('/')[1] of an s that holds a '/': what stands between the first
\* '/' and the next one or the end
AfterSlash(s) ==
  LET first == Least({i \in 1..Len(s) : CharAt(s, i) = "/"})
      rest == SubSeq(s, first + 1, Len(s))
      stops == {i \in 1..Len(rest) : CharAt(rest, i) = "/"}
  IN IF stops = {} THEN rest ELSE SubSeq(rest, 1, Least(stops) - 1)

\* simulate_ai_analysis (lines 73-101): the fields generate_listing reads
simulate_ai_analysis ==
  [style |-> "Contemporary Street Art",
   subject |-> "Political/Social Commentary"]

\* generate_listing (lines 142-181)
generate_listing(product, analysis, description) ==
  [sku |-> product.sku,
   title |-> product.artist \o " - " \o product.title \o " "
               \o product.medium \o " " \o product.year \o " "
               \o product.edition,
   description |-> description,
   category_id |-> "550",
   condition_id |-> "3000",
   price |-> [value |-> str_price(product.price), currency |-> "USD"],
   quantity |-> 1,
   listing_policies |->
     [payment_policy_id |-> "PAYMENT_POLICY_ID",
      return_policy_id |-> "RETURN_POLICY_ID",
      fulfillment_policy_id |-> "FULFILLMENT_POLICY_ID"],
   item_specifics |->
     [Artist |-> product.artist,
      Medium |-> product.medium,
      Size |-> product.size,
      Year |-> product.year,
      EditionSize |-> IF In("/", product.edition)
                      THEN AfterSlash(product.edition) ELSE "Open",
      Signed |-> IF In("Signed", product.medium)
                    \/ product.edition # "Unsigned"
                 THEN "Yes" ELSE "No",
      FrameIncluded |-> "No",
      Style |-> analysis.style,
      Subject |-> analysis.subject],
   images |->
     <<"https://example.com/images/" \o product.sku \o "_main.jpg",
       "https://example.com/images/" \o product.sku \o "_detail1.jpg",
       "https://example.com/images/" \o product.sku \o "_detail2.jpg",
       "https://example.com/images/" \o product.sku \o "_signature.jpg">>]

\* ProductData (lines 21-32); the price in cents
ProductData(sku, title, artist, medium, year, size, edition, condition, price) ==
  [sku |-> sku, title |-> title, artist |-> artist, medium |-> medium,
   year |-> year, size |-> size, edition |-> edition,
   condition |-> condition, price |-> price]

\* products like those of SAMPLE_INVENTORY (lines 36-70)
DemoProducts ==
  {ProductData(s, "Hope", a, m, "2008", "24 x 36", e, "Excellent", p) :
     s \in {"SF-HOPE-001", "BK-THRW-042", "KH-COMP-015"},
     a \in {"Shepard Fairey", "Banksy", "Keith Haring"},
     m \in {"Screen Print", "Lithograph", "Signed Lithograph"},
     e \in {"450/500", "Unsigned", "Open"},
     p \in {120000, 85050, 19999, 5}}

InitDemo ==
  /\ NoTokenState
  /\ inventory_db = NoDatabase
  /\ args \in {[fn |-> "generate_listing", product |-> p,
                analysis |-> simulate_ai_analysis,
                description |-> Text(120)] : p \in DemoProducts}
  /\ result = NotCalled

GenerateListing ==
  /\ args.fn = "generate_listing"
  /\ result = NotCalled
  /\ result' = [fn |-> args.fn,
                listing |-> generate_listing(args.product, args.analysis,
                                             args.description)]
  /\ UNCHANGED <<TokenVars, args, inventory_db>>

NextDemo == GenerateListing

SpecDemo == InitDemo /\ [][NextDemo]_vars

Generated == result # NotCalled

\* C20: every generated listing has all the required eBay fields: sku,
\* title, category (with id and name), condition, price, quantity, format,
\* description, item_specifics, images and policies.
required_fields ==
  {"sku", "title", "category", "condition", "price", "quantity", "format",
   "description", "item_specifics", "images", "policies"}

C20_RequiredFields ==
  Generated =>
    /\ required_fields \subseteq DOMAIN result.listing
    /\ {"id", "name"} \subseteq DOMAIN result.listing.category

\* ------------------------------------------------------- the price block
Digits == "0123456789"

\* the value of every decimal digit
DigitOf ==
  LET at == [i \in 1..Len(Digits) |-> CharAt(Digits, i)]
  IN [c \in {at[i] : i \in 1..Len(Digits)} |->
        (CHOOSE i \in 1..Len(Digits) : at[i] = c) - 1]

\* int(s) of a text of decimal digits
RECURSIVE int(_)
int(s) ==
  IF Len(s) = 0 THEN 0
  ELSE 10 * int(SubSeq(s, 1, Len(s) - 1)) + DigitOf[CharAt(s, Len(s))]

\* float(s) of a decimal text with an optional sign and at most two
\* decimals, in cents
float(s) ==
  LET negative == Len(s) > 0 /\ CharAt(s, 1) = "-"
      body == IF negative THEN Tail(s) ELSE s
      dots == {i \in 1..Len(body) : CharAt(body, i) = "."}
      whole == IF dots = {} THEN body ELSE SubSeq(body, 1, Least(dots) - 1)
      frac == IF dots = {} THEN ""
              ELSE SubSeq(body, Least(dots) + 1, Len(body))
      cents == IF Len(frac) = 0 THEN 0
               ELSE IF Len(frac) = 1 THEN 10 * int(frac)
               ELSE int(frac)
      amount == 100 * int(whole) + cents
  IN IF negative THEN 0 - amount ELSE amount

\* str(price) of a float price of whole cents, of either sign
str_float(cents) ==
  IF cents < 0 THEN "-" \o str_price(0 - cents) ELSE str_price(cents)

\* create_listing_from_inventory, line 64:
\* float(product_data.get('sale_price', 100)), in cents
listing_price(product_data) == get(product_data, "sale_price", 10000)

\* create_offer (lines 250-270): the body of the offer POST
offer_data(sku, price, quantity) ==
  [sku |-> sku,
   marketplaceId |-> "EBAY_US",
   format |-> "FIXED_PRICE",
   availableQuantity |-> quantity,
   categoryId |-> "550",
   listingDescription |->
     "Beautiful artwork - see inventory item " \o sku \o " for details",
   listingPolicies |->
     [fulfillmentPolicyId |-> "None", paymentPolicyId |-> "None",
      returnPolicyId |-> "None"],
   pricingSummary |->
     [price |-> [value |-> str_float(price), currency |-> "USD"]]]

\* create_product_from_image, line 731: the sale price of a new product is
\* ai_analysis.get('estimated_value', {}).get('max', 0)
sale_price_of(ai_analysis) ==
  get(get(ai_analysis, "estimated_value", [none |-> 0]), "max", 0)

\* product data as the listing automation receives it: made by
\* create_product_from_image from an analysis, with or without a price
\* given by hand, or without any sale_price
SalePrices == {0, 4500, 120050, 19999}
InventoryProducts ==
  {[sku |-> s,
    sale_price |-> sale_price_of([estimated_value |-> [min |-> 0, max |-> p]])] :
     s \in {"BANK-261101120000", "ART-261101120001"}, p \in SalePrices}
  \cup {[sku |-> s] : s \in {"BANK-261101120000", "ART-261101120001"}}

InitPrice ==
  /\ NoTokenState
  /\ inventory_db = NoDatabase
  /\ args \in {[fn |-> "generate_listing", product |-> p,
                analysis |-> simulate_ai_analysis,
                description |-> Text(120)] : p \in DemoProducts}
            \cup {[fn |-> "create_offer", product_data |-> p] :
                    p \in InventoryProducts}
  /\ result = NotCalled

\* the offer create_listing_from_inventory asks for (lines 63-65)
CreateListingOffer ==
  /\ args.fn = "create_offer"
  /\ result = NotCalled
  /\ result' = [fn |-> args.fn,
                offer_data |-> offer_data(args.product_data.sku,
                                          listing_price(args.product_data),
                                          1)]
  /\ UNCHANGED <<TokenVars, args, inventory_db>>

NextPrice ==
  \/ GenerateListing
  \/ CreateListingOffer

SpecPrice == InitPrice /\ [][NextPrice]_vars

\* the price block of the listing or offer payload that was made
PriceBlock ==
  IF result.fn = "generate_listing" THEN result.listing.price
  ELSE result.offer_data.pricingSummary.price

\* C21: in every generated listing and every offer payload the price block
\* has the keys value and currency, and price.value is a string, never a
\* number, that parses to a positive amount.
C21_PriceBlockStringPositive ==
  Generated =>
    /\ DOMAIN PriceBlock = {"value", "currency"}
    /\ PriceBlock.value \in STRING
    /\ float(PriceBlock.value) > 0

\* the same without the sign of the amount
C21_PriceBlockString ==
  Generated =>
    /\ DOMAIN PriceBlock = {"value", "currency"}
    /\ PriceBlock.value \in STRING
    /\ str_float(float(PriceBlock.value)) = PriceBlock.value

\* ------------------------------------ InventoryCreationWorkflow: the SKU
\* the upper-case letter of every lower-case letter
UpperOf ==
  LET at == [i \in 1..Len(LowerCase) |-> CharAt(LowerCase, i)]
  IN [c \in {at[i] : i \in 1..Len(LowerCase)} |->
        CharAt(UpperCase, CHOOSE i \in 1..Len(LowerCase) : at[i] = c)]

UpperChar(c) == IF c \in DOMAIN UpperOf THEN UpperOf[c] ELSE c

\* c.isalpha() of a character
isalpha(c) == c \in DOMAIN UpperOf \/ c \in DOMAIN LowerOf

\* ''.join([c for c in artist.upper() if c.isalpha()])
RECURSIVE upper_letters(_)
upper_letters(artist) ==
  IF Len(artist) = 0 THEN ""
  ELSE (IF isalpha(UpperChar(CharAt(artist, 1)))
        THEN UpperChar(CharAt(artist, 1)) ELSE "")
       \o upper_letters(Tail(artist))

\* datetime.now().strftime('%y%m%d%H%M%S'): twelve digits, the last two the
\* second.  now counts the seconds of one minute, 2026-11-01 12:00.
strftime(now) ==
  "2611011200" \o (IF now % 60 < 10 THEN "0" ELSE "") \o ToString(now % 60)

\* generate_sku (lines 763-767); now is datetime.now()
generate_sku(artist, now) ==
  (IF upper_letters(artist) = "" THEN "ART"
   ELSE Prefix(upper_letters(artist), 4))
  \o "-" \o strftime(now)

\* save_product_local (lines 791-804): db[product_data['sku']] = product_data
save_product_local(db, product_data) ==
  [sku \in DOMAIN db \cup {product_data.sku} |->
     IF sku = product_data.sku THEN product_data ELSE db[sku]]

\* create_product_from_image (lines 642-761): the product made from an
\* uploaded image whose analysis names the artist, and the database after it
create_product_from_image(db, filename, artist, now) ==
  LET sku == generate_sku(artist, now)
      product_data ==
        [sku |-> sku, artist |-> artist,
         image_filename |-> artist \o "-Untitled-" \o sku \o filename]
  IN [product_data |-> product_data,
      db |-> save_product_local(db, product_data)]

\* the artists the analyses name ('' when no model named one) and the
\* names of the uploaded files
AnalysedArtists == {"Banksy", "Bankhead, J.", ""}
Uploads == {"a.jpg", "b.png"}

InitInventory ==
  /\ NoTokenState
  /\ inventory_db = NoDatabase
  /\ args = NoArgs
  /\ result = NotCalled

CreateProductFromImage ==
  \E filename \in Uploads, artist \in AnalysedArtists :
    LET made == create_product_from_image(inventory_db, filename, artist,
                                          clock)
    IN /\ args' = [fn |-> "create_product_from_image",
                   filename |-> filename, artist |-> artist]
       /\ result' = [fn |-> "create_product_from_image",
                     product_data |-> made.product_data]
       /\ inventory_db' = made.db
       /\ UNCHANGED TokenVars

\* products are made one after another, in the same second or a later one
NextInventory ==
  \/ CreateProductFromImage
  \/ Tick

SpecInventory == InitInventory /\ [][NextInventory]_vars

\* a product record is in the database and another product is made
MakesAnother ==
  /\ inventory_db # NoDatabase
  /\ <<args', result', inventory_db'>> # <<args, result, inventory_db>>

\* C22: any two products created by create_product_from_image, also two
\* created within the same clock second for the same artist, get different
\* SKUs, so save_product_local never replaces the record of an earlier
\* product: a new product's SKU is not yet in the database and every record
\* stays.
C22_UniqueSkuNeverReplaces ==
  [][MakesAnother =>
       /\ result'.product_data.sku \notin DOMAIN inventory_db
       /\ \A sku \in DOMAIN inventory_db :
            inventory_db'[sku] = inventory_db[sku]]_vars

\* ------------------------- eBayListingAutomation: create_listing_from_inventory
\* Product data as create_listing_from_inventory meets it.  sku: the 'sku'
\* entry, "" when the dict has none.  year "bad": a year whose first four
\* characters are no number, so that _select_template raises; convert "bad":
\* data _convert_to_ebay_format cannot turn into an inventory item;
\* sale_price "bad": a sale_price float() rejects.
ListingProduct(sku, year, convert, sale_price) ==
  [sku |-> sku, year |-> year, convert |-> convert,
   sale_price |-> sale_price]
ListingProducts ==
  {ListingProduct("BANK-261101120000", "ok", "ok", "ok"),
   ListingProduct("", "ok", "ok", "ok"),
   ListingProduct("BANK-261101120000", "bad", "ok", "ok"),
   ListingProduct("BANK-261101120000", "ok", "bad", "ok"),
   ListingProduct("BANK-261101120000", "ok", "ok", "bad")}

\* what one wrapper call consumes: the reply to a token refresh, the time the
\* refresh takes, the outcome of saving the token, the marketplace's reply
CallInput(resp, delay, io, mresp) ==
  [resp |-> resp, delay |-> delay, io |-> io, mresp |-> mresp]
NoCallInput == CallInput(NoReply, 0, "ok", NoMarketReply)

\* create_inventory_item, line 221: product_data.get('sku',
\* f"ART-{int(time.time())}")
inventory_sku(product_data, now) ==
  IF product_data.sku # "" THEN product_data.sku ELSE "ART-" \o ToString(now)

\* the outcome of create_listing_from_inventory: the token slot and file
\* after it, the time it took, the requests it sent and the files it wrote

\* the outcome of create_listing_from_inventory: the token slot and file
\* after it, the time it took, the requests it sent and the files it wrote
\* in their order, which result it returned and that result's entries, and
\* what the two wrappers returned and were answered ("none", 0: not called)
Listing(slot, file, delay, steps, returned, success, sku, status, calls) ==
  [slot |-> slot, file |-> file, delay |-> delay, steps |-> steps,
   returned |-> returned, success |-> success, sku |-> sku,
   status |-> status, inventory |-> calls.inventory,
   put_status |-> calls.put_status, offer |-> calls.offer,
   post_status |-> calls.post_status]

WrapperCalls(inventory, put_status, offer, post_status) ==
  [inventory |-> inventory, put_status |-> put_status, offer |-> offer,
   post_status |-> post_status]

\* (a variant that goes on to the offer whatever the inventory step returned)
listing_ignoring_inventory(slot, file, product_data, sku, in1, in2, save, inv, off) ==
  LET put == IF inv.market > 0 THEN <<"PUT inventory_item">> ELSE <<>>
      post == IF off.market > 0 THEN <<"POST offer">> ELSE <<>>
      took == in1.delay + in2.delay
      one == WrapperCalls(inv.ret, in1.mresp.status, "none", 0)
      two == WrapperCalls(inv.ret, in1.mresp.status, off.ret,
                          in2.mresp.status)
  IN IF product_data.year = "bad"
     THEN Listing(slot, file, 0, <<>>, "error", FALSE, "", "",
                  WrapperCalls("none", 0, "none", 0))
     ELSE IF inv.ret = "raise"
     THEN Listing(inv.slot, inv.file, in1.delay, put, "error", FALSE, "", "",
                  one)
     ELSE IF product_data.sale_price = "bad"
     THEN Listing(inv.slot, inv.file, in1.delay, put, "error", FALSE, "", "",
                  one)
     ELSE IF off.ret = "raise"
     THEN Listing(off.slot, off.file, took, put \o post, "error", FALSE, "",
                  "", two)
     ELSE IF off.ret # "success"
     THEN Listing(off.slot, off.file, took, put \o post, "offer_result",
                  FALSE, "", "", two)
     ELSE IF product_data.sku = "" \/ save = "denied"
     THEN Listing(off.slot, off.file, took, put \o post, "error", FALSE, "",
                  "", two)
     ELSE Listing(off.slot, off.file, took,
                  put \o post \o <<"write ebay_listings.json">>, "result",
                  TRUE, sku, "draft", two)

\* create_listing_from_inventory (lines 52-96) once the wrappers' outcomes
\* inv and off are known; off is looked at only when create_offer is called.
\* returned: "inventory_result" and "offer_result" are the wrappers' failure
\* results handed on, "result" the success result, "error" the result of the
\* except branch.
listing(slot, file, product_data, sku, in1, in2, save, inv, off) ==
  LET put == IF inv.market > 0 THEN <<"PUT inventory_item">> ELSE <<>>
      post == IF off.market > 0 THEN <<"POST offer">> ELSE <<>>
      took == in1.delay + in2.delay
      one == WrapperCalls(inv.ret, in1.mresp.status, "none", 0)
      two == WrapperCalls(inv.ret, in1.mresp.status, off.ret,
                          in2.mresp.status)
  IN IF product_data.year = "bad"
     THEN Listing(slot, file, 0, <<>>, "error", FALSE, "", "",
                  WrapperCalls("none", 0, "none", 0))
     ELSE IF inv.ret = "raise"
     THEN Listing(inv.slot, inv.file, in1.delay, put, "error", FALSE, "", "",
                  one)
     ELSE IF inv.ret # "success"
     THEN Listing(inv.slot, inv.file, in1.delay, put, "inventory_result",
                  FALSE, "", "", one)
     ELSE IF product_data.sale_price = "bad"
     THEN Listing(inv.slot, inv.file, in1.delay, put, "error", FALSE, "", "",
                  one)
     ELSE IF off.ret = "raise"
     THEN Listing(off.slot, off.file, took, put \o post, "error", FALSE, "",
                  "", two)
     ELSE IF off.ret # "success"
     THEN Listing(off.slot, off.file, took, put \o post, "offer_result",
                  FALSE, "", "", two)
     ELSE IF product_data.sku = "" \/ save = "denied"
     THEN Listing(off.slot, off.file, took, put \o post, "error", FALSE, "",
                  "", two)
     ELSE Listing(off.slot, off.file, took,
                  put \o post \o <<"write ebay_listings.json">>, "result",
                  TRUE, sku, "draft", two)

\* lines 63-65: the offer is asked for in the token state the inventory call
\* left
listing_after_inventory(slot, file, env, now, product_data, in1, in2, save, inv) ==
  listing(slot, file, product_data, inventory_sku(product_data, now), in1,
          in2, save, inv,
          create_offer(inv.slot, inv.file, env, now + in1.delay, in2.delay,
                       in2.resp, in2.io, in2.mresp))

\* create_listing_from_inventory (lines 52-96).  in1 and in2 are what the
\* two wrapper calls consume, save what writing ebay_listings.json does.
create_listing_from_inventory(slot, file, env, now, product_data, in1, in2, save) ==
  listing_after_inventory(slot, file, env, now, product_data, in1, in2, save,
    create_inventory_item(slot, file, env, now, in1.delay, in1.resp, in1.io,
                          product_data.convert, in1.mresp))

\* The replies the listing runs are checked with.  The OAuth endpoint refuses
\* a refresh, or grants a token that expires at once or after the default
\* time; the body of the reply to the inventory PUT is not read.
ListingOAuthReplies ==
  {OAuthReply(400, "json", 0, 0, "absent", 0),
   OAuthReply(200, "json", 1, 0, "number", 0),
   OAuthReply(200, "json", 1, 0, "absent", 0)}
PutReplies == {r \in MarketResponses : r.body = "json"}
PostReplies == MarketResponses

\* whether ensure_valid_token, given these inputs, returns true
EnsuredWith(slot, file, env, now, resp, delay, io) ==
  ensure_valid_token(slot, file, env, now, delay, resp, io).ret = "true"

\* what a wrapper called in this token state at time now can consume, when
\* ensure_valid_token goes (asks) or does not go to the OAuth endpoint;
\* mreplies: the replies to its marketplace request, if it gets that far
InputsWhen(slot, file, env, now, mreplies, asks) ==
  UNION {UNION {UNION {
    {CallInput(resp, delay, io, mresp) :
       mresp \in IF EnsuredWith(slot, file, env, now, resp, delay, io)
                 THEN mreplies ELSE {NoMarketReply}} :
    io \in Saves(resp)} : delay \in Delays(asks)} :
    resp \in IF asks THEN ListingOAuthReplies ELSE {NoReply}}

WrapperInputs(slot, file, env, now, mreplies) ==
  InputsWhen(slot, file, env, now, mreplies,
             ensure_valid_token(slot, file, env, now, 0, NoReply,
                                "ok").oauth > 0)

\* what create_inventory_item can consume: nothing when _select_template
\* raises before it, no marketplace reply when the conversion raises
FirstInputs(slot, file, env, now, product_data, puts) ==
  IF product_data.year = "bad" THEN {NoCallInput}
  ELSE WrapperInputs(slot, file, env, now,
                     IF product_data.convert = "ok" THEN puts
                     ELSE {NoMarketReply})

\* what create_offer can consume after the inventory call returned inv
SecondInputs(env, now, product_data, posts, in1, inv) ==
  IF /\ product_data.year # "bad"
     /\ inv.ret = "success"
     /\ product_data.sale_price # "bad"
  THEN WrapperInputs(inv.slot, inv.file, env, now + in1.delay, posts)
  ELSE {NoCallInput}

\* the outcomes create_listing_from_inventory can have once the inventory
\* call consumed in1 and returned inv
RunsAfterInventory(slot, file, env, now, product_data, posts, in1, inv) ==
  UNION {
    {create_listing_from_inventory(slot, file, env, now, product_data, in1,
                                   in2, save) : save \in SaveOutcomes} :
    in2 \in SecondInputs(env, now, product_data, posts, in1, inv)}

\* the outcomes create_listing_from_inventory can have for product_data in a
\* token state, when the marketplace answers the PUT from puts and the POST
\* from posts
ListingRuns(slot, file, env, now, product_data, puts, posts) ==
  UNION {
    RunsAfterInventory(slot, file, env, now, product_data, posts, in1,
      create_inventory_item(slot, file, env, now, in1.delay, in1.resp,
                            in1.io, product_data.convert, in1.mresp)) :
    in1 \in FirstInputs(slot, file, env, now, product_data, puts)}

CreateListingFromInventory ==
  /\ result = NotCalled
  /\ \E product_data \in ListingProducts :
       \E out \in ListingRuns(self, token_file, environment, clock,
                              product_data, PutReplies, PostReplies) :
         /\ clock + out.delay <= MaxTime
         /\ access_token' = out.slot.access_token
         /\ refresh_token' = out.slot.refresh_token
         /\ token_expires_at' = out.slot.token_expires_at
         /\ token_file' = out.file
         /\ clock' = clock + out.delay
         /\ args' = [fn |-> "create_listing_from_inventory",
                     product_data |-> product_data]
         /\ result' =
              [fn |-> "create_listing_from_inventory",
               returned |-> out.returned, success |-> out.success,
               sku |-> out.sku, status |-> out.status, steps |-> out.steps,
               inventory |-> out.inventory, put_status |-> out.put_status,
               offer |-> out.offer, post_status |-> out.post_status]
         /\ UNCHANGED <<environment, last, inventory_db>>

Listed == result.fn = "create_listing_from_inventory"

\* the caller takes the result of create_listing_from_inventory
ReturnListing ==
  /\ Listed
  /\ args' = NoArgs
  /\ result' = NotCalled
  /\ UNCHANGED <<TokenVars, inventory_db>>

\* listings are made one after another by a process that starts from the
\* token file it finds
NextListing ==
  \/ CreateListingFromInventory
  \/ ReturnListing
  \/ Tick

SpecListing == Init /\ [][NextListing]_vars

\* the requests and the file write of a complete run, in the order of the code
ListingSteps ==
  <<"PUT inventory_item", "POST offer", "write ebay_listings.json">>

\* the inventory item, the offer exist on the marketplace after the call
ItemCreated ==
  /\ Len(result.steps) >= 1
  /\ result.put_status \in {200, 201, 204}
OfferCreated ==
  /\ Len(result.steps) >= 2
  /\ result.post_status \in {200, 201}

\* C23: the offer POST is sent only after the inventory-item PUT succeeded,
\* the listing record is written only after both succeeded, no publish
\* request is ever sent (the result status is 'draft'), and when the
\* inventory step or the offer step fails its failure result is returned
\* with no later step performed.
C23_StepsStrictlyOrdered ==
  Listed =>
    /\ result.steps = SubSeq(ListingSteps, 1, Len(result.steps))
    /\ Len(result.steps) >= 2 => result.inventory = "success"
    /\ Len(result.steps) = 3
         => (result.inventory = "success" /\ result.offer = "success")
    /\ result.success => result.status = "draft"
    /\ result.inventory \in {"failure", "no_token"}
         => /\ result.returned = "inventory_result"
            /\ ~result.success
            /\ Len(result.steps) <= 1
    /\ result.offer \in {"failure", "no_token"}
         => /\ result.returned = "offer_result"
            /\ ~result.success
            /\ Len(result.steps) <= 2

C23_Witness ==
  /\ Listed
  /\ result.steps = ListingSteps
  /\ result.success
  /\ result.status = "draft"

C23_WitnessInventoryFailed ==
  /\ Listed
  /\ result.inventory = "failure"
  /\ result.steps = <<"PUT inventory_item">>
  /\ result.returned = "inventory_result"

C23_WitnessOfferFailed ==
  /\ Listed
  /\ result.offer = "failure"
  /\ result.steps = <<"PUT inventory_item", "POST offer">>
  /\ result.returned = "offer_result"

\* C24: whenever both the inventory item and the offer were created on the
\* marketplace the result has success True with that sku, also for product
\* data without a 'sku' key or when writing ebay_listings.json fails; a
\* result with success False means no offer was created.
C24_SuccessIffRemoteChanged ==
  Listed =>
    /\ (ItemCreated /\ OfferCreated)
         => (result.success /\ result.sku # "")
    /\ ~result.success => ~OfferCreated

\* the converse does hold: a success result means both were created and the
\* record was written
C24_SuccessMeansCreated ==
  (Listed /\ result.success)
    => (ItemCreated /\ OfferCreated /\ result.steps = ListingSteps)

\* --------------------------------- eBayListingAutomation: batch_create_listings
MaxBatch == 2

\* the runs of create_listing_from_inventory over the products one after
\* another, each starting in the token state the one before left
RECURSIVE BatchRuns(_, _, _, _, _, _, _)
BatchRuns(slot, file, env, now, products, puts, posts) ==
  IF products = <<>> THEN {<<>>}
  ELSE UNION {
         {<<out>> \o rest :
            rest \in BatchRuns(out.slot, out.file, env, now + out.delay,
                               Tail(products), puts, posts)} :
         out \in ListingRuns(slot, file, env, now, Head(products), puts,
                             posts)}

\* results = {...} (lines 100-106)
NoResults ==
  [total_processed |-> 0, successful |-> 0, failed |-> 0,
   listings |-> <<>>, errors |-> <<>>]

\* (a variant that gives up at the first product that fails)
RECURSIVE batch_loop_until_failure(_, _, _)
batch_loop_until_failure(results, inventory_products, listing_results) ==
  IF inventory_products = <<>> THEN results
  ELSE LET product == Head(inventory_products)
           listing_result == Head(listing_results)
           counted == [results EXCEPT !.total_processed = @ + 1]
       IN IF listing_result.success
          THEN batch_loop_until_failure(
                 [counted EXCEPT !.successful = @ + 1,
                                 !.listings = Append(@, listing_result)],
                 Tail(inventory_products), Tail(listing_results))
          ELSE [counted EXCEPT
                  !.failed = @ + 1,
                  !.errors = Append(@, [sku |-> product.sku,
                                        error |-> listing_result.returned])]

\* the loop of batch_create_listings (lines 108-138) from the results so
\* far; listing_results: what create_listing_from_inventory returns for each
\* product.  It returns a result for every dict, so the except branch
\* (lines 131-138) is not entered.
RECURSIVE batch_loop(_, _, _)
batch_loop(results, inventory_products, listing_results) ==
  IF inventory_products = <<>> THEN results
  ELSE LET product == Head(inventory_products)
           listing_result == Head(listing_results)
           counted == [results EXCEPT !.total_processed = @ + 1]
       IN IF listing_result.success
          THEN batch_loop(
                 [counted EXCEPT !.successful = @ + 1,
                                 !.listings = Append(@, listing_result)],
                 Tail(inventory_products), Tail(listing_results))
          ELSE batch_loop(
                 [counted EXCEPT
                    !.failed = @ + 1,
                    !.errors = Append(@, [sku |-> product.sku,
                                          error |-> listing_result.returned])],
                 Tail(inventory_products), Tail(listing_results))

\* batch_create_listings (lines 98-145)
batch_create_listings(inventory_products, listing_results) ==
  batch_loop(NoResults, inventory_products, listing_results)

\* the result dict of a run of create_listing_from_inventory
ListingResult(out) ==
  [success |-> out.success, sku |-> out.sku, status |-> out.status,
   returned |-> out.returned]

\* The batches that are checked: up to MaxBatch products, with and without
\* a 'sku', one of them with a year _select_template rejects; the
\* marketplace accepts or refuses the PUT and the POST.
BatchProducts ==
  {ListingProduct("BANK-261101120000", "ok", "ok", "ok"),
   ListingProduct("", "ok", "ok", "ok"),
   ListingProduct("KEIT-261101120001", "bad", "ok", "ok")}
BatchLists == UNION {[1..n -> BatchProducts] : n \in 0..MaxBatch}
BatchPuts == {r \in PutReplies : r.status \in {204, 400}}
BatchPosts == {r \in PostReplies : r.status \in {201, 400} /\ r.body = "json"}

\* a process that starts from a token file without a refresh token, so that
\* no token refresh is made during the batch and the calls take no time
InitBatch ==
  /\ Init
  /\ ~Truthy(token_file.refresh_token)

BatchCreateListings ==
  /\ result = NotCalled
  /\ \E inventory_products \in BatchLists :
    \E run \in BatchRuns(self, token_file, environment, clock,
                         inventory_products, BatchPuts, BatchPosts) :
      LET n == Len(run)
          after == IF n = 0 THEN self ELSE run[n].slot
      IN /\ access_token' = after.access_token
         /\ refresh_token' = after.refresh_token
         /\ token_expires_at' = after.token_expires_at
         /\ token_file' = IF n = 0 THEN token_file ELSE run[n].file
         /\ args' = [fn |-> "batch_create_listings",
                     inventory_products |-> inventory_products]
         /\ result' =
              [fn |-> "batch_create_listings",
               listing_results |-> [i \in 1..n |-> ListingResult(run[i])],
               results |-> batch_create_listings(inventory_products,
                             [i \in 1..n |-> ListingResult(run[i])])]
         /\ UNCHANGED <<environment, clock, last, inventory_db>>

NextBatch ==
  \/ BatchCreateListings
  \/ Tick

SpecBatch == InitBatch /\ [][NextBatch]_vars

Batched == result.fn = "batch_create_listings"

\* the indices from `from` on at which flags holds, in their order
RECURSIVE SelectIndices(_, _)
SelectIndices(flags, from) ==
  IF from > Len(flags) THEN <<>>
  ELSE (IF flags[from] THEN <<from>> ELSE <<>>)
       \o SelectIndices(flags, from + 1)

\* the products that got a success result, and those that did not, by their
\* place in the input
Succeeded ==
  SelectIndices([i \in 1..Len(result.listing_results) |->
                   result.listing_results[i].success], 1)
Failed ==
  SelectIndices([i \in 1..Len(result.listing_results) |->
                   ~result.listing_results[i].success], 1)

\* C25: the products are processed in input order and a failure of one
\* never stops the rest: total_processed is the number of input products,
\* successful + failed = total_processed, listings has exactly `successful`
\* entries and errors exactly `failed` entries; the listings are the results
\* of the products that succeeded and the errors name the products that
\* failed, both in input order.
C25_BatchCounts ==
  Batched =>
    LET results == result.results
        products == args.inventory_products
    IN /\ results.total_processed = Len(products)
       /\ results.successful + results.failed = results.total_processed
       /\ Len(results.listings) = results.successful
       /\ Len(results.errors) = results.failed
       /\ results.listings =
            [k \in 1..Len(Succeeded) |-> result.listing_results[Succeeded[k]]]
       /\ [k \in 1..Len(results.errors) |-> results.errors[k].sku] =
            [k \in 1..Len(Failed) |-> products[Failed[k]].sku]

\* a batch whose first product fails and whose second succeeds
C25_Witness ==
  /\ Batched
  /\ Len(args.inventory_products) = 2
  /\ ~result.listing_results[1].success
  /\ result.listing_results[2].success
  /\ result.results.successful = 1
  /\ result.results.failed = 1

\* ------------------------------------------- the token lifecycle, continued
\* C26: ensure_valid_token returns true only when the manager holds an
\* access token whose expiry is known and strictly in the future at the time
\* of return; a held or persisted token with a missing or unparseable
\* expires_at is never reported as valid.
C26_TrueOnlyWhenValid ==
  (last.op = "ensure" /\ last.ret = "true") => Valid(self, clock)

\* with an expiry in memory, true is returned only for a token that is held
\* and not expired, or after a refresh
C26_TrueWithKnownExpiry ==
  ( /\ last.op = "ensure"
    /\ last.ret = "true"
    /\ last.oauth = 0
    /\ token_expires_at.kind = "naive" ) => Valid(self, clock)

\* C27: a token persisted with the environment tag of the other environment
\* is never loaded by the process: a persisted token whose tag differs from
\* the process's environment leaves the manager in NoToken.
C27_EnvironmentsKeptApart ==
  ( /\ last.op = "ensure"
    /\ last.pre.notoken
    /\ token_file.kind = "tokens"
    /\ token_file.environment # environment ) => self = EmptySlot

\* the step is a refresh_access_token or exchange_code_for_token call
TokenCallStep ==
  /\ last = NoCall
  /\ last'.op \in {"refresh", "exchange"}

\* C28: a refresh_access_token or exchange_code_for_token call that returns
\* false or an empty result leaves the in-memory access_token, refresh_token
\* and expires_at as they were before the call; and a successful refresh
\* never changes refresh_token.
C28_FailedCallLeavesToken ==
  [][TokenCallStep =>
       /\ last'.ret \in {"false", "empty"}
            => UNCHANGED <<access_token, refresh_token, token_expires_at>>
       /\ (last'.op = "refresh" /\ last'.ret = "true")
            => UNCHANGED refresh_token]_vars

\* the second half alone: a refresh, successful or not, keeps refresh_token
C28_RefreshKeepsRefreshToken ==
  [][(TokenCallStep /\ last'.op = "refresh") => UNCHANGED refresh_token]_vars

\* ------------------------------------------------- _map_condition_to_ebay
\* condition_map (lines 415-421)
condition_map ==
  ("mint" :> "NEW") @@ ("excellent" :> "LIKE_NEW")
  @@ ("very good" :> "VERY_GOOD") @@ ("good" :> "GOOD")
  @@ ("fair" :> "ACCEPTABLE")

\* _map_condition_to_ebay (lines 413-423)
_map_condition_to_ebay(condition) ==
  get(condition_map, lower(condition), "GOOD")

\* conditions of the internal scale in both spellings and in several cases,
\* and one that is not on the scale
ConditionTexts ==
  {"mint", "excellent", "very good", "very_good", "good", "fair", "poor",
   "Mint", "Very Good", "FAIR", "Poor", "damaged"}

InitCondition ==
  /\ NoTokenState
  /\ inventory_db = NoDatabase
  /\ args \in {[fn |-> "_map_condition_to_ebay", worse |-> a, better |-> b] :
                 a \in ConditionTexts, b \in ConditionTexts}
  /\ result = NotCalled

\* the conditions of two products are mapped
MapConditionToEbay ==
  /\ result = NotCalled
  /\ result' = [fn |-> args.fn,
                worse |-> _map_condition_to_ebay(args.worse),
                better |-> _map_condition_to_ebay(args.better)]
  /\ UNCHANGED <<TokenVars, args, inventory_db>>

NextCondition == MapConditionToEbay

SpecCondition == InitCondition /\ [][NextCondition]_vars

Mapped == result # NotCalled

\* the internal scale mint > excellent > very_good > good > fair > poor is
\* the order of the condition multipliers; 0 for a text not on the scale
InternalRank(condition) ==
  get(condition_multipliers, replace(lower(condition), " ", "_"), 0)

\* NEW > LIKE_NEW > VERY_GOOD > GOOD > ACCEPTABLE
EbayRank ==
  [NEW |-> 5, LIKE_NEW |-> 4, VERY_GOOD |-> 3, GOOD |-> 2, ACCEPTABLE |-> 1]

\* C29: _map_condition_to_ebay is total, case-insensitive and
\* order-preserving over the internal scale: a worse internal condition never
\* maps to a better eBay condition, in either spelling of very good, and
\* unknown conditions map to GOOD.
C29_ConditionOrderPreserved ==
  Mapped =>
    /\ result.worse \in DOMAIN EbayRank
    /\ result.worse = _map_condition_to_ebay(lower(args.worse))
    /\ ( /\ InternalRank(args.worse) > 0
         /\ InternalRank(args.worse) <= InternalRank(args.better) )
         => EbayRank[result.worse] <= EbayRank[result.better]
    /\ InternalRank(args.worse) = 0 => result.worse = "GOOD"

\* the same over the keys of condition_map: mint, excellent, 'very good',
\* good and fair in any case
C29_OrderPreservedOnMapKeys ==
  Mapped =>
    /\ result.worse \in DOMAIN EbayRank
    /\ result.worse = _map_condition_to_ebay(lower(args.worse))
    /\ ( /\ lower(args.worse) \in DOMAIN condition_map
         /\ lower(args.better) \in DOMAIN condition_map
         /\ InternalRank(args.worse) <= InternalRank(args.better) )
         => EbayRank[result.worse] <= EbayRank[result.better]
    /\ InternalRank(args.worse) = 0 => result.worse = "GOOD"

\* ------------------------------- EnhancedAIManager: the merge of analyses
\* combined_analysis as analyze_artwork_multimodel starts it (lines 105-128):
\* of the text fields, all '', artist stands for all; of the list fields
\* keywords
combined_analysis ==
  [artist |-> JStr(""),
   keywords |-> JList(<<>>),
   estimated_value |-> JDict(<< <<"min", JInt(0)>>, <<"max", JInt(0)>> >>),
   ai_confidence |-> JDict(<<>>)]

\* the models in the order analyze_artwork_multimodel asks them
ModelNames == <<"gpt-4", "claude-3", "gemini", "grok">>

\* the number of entries of new_data with a truthy value
Filled(new_data) ==
  Cardinality({key \in DOMAIN new_data : truthy(new_data[key])})

\* _merge_analysis (lines 351-360)
_merge_analysis(combined, new_data, model) ==
  LET taken == {key \in DOMAIN new_data :
                  /\ truthy(new_data[key])
                  /\ \/ ~truthy(get(combined, key, JNull))
                     \/ combined[key] = JStr("")}
      merged == [key \in DOMAIN combined \cup taken |->
                   IF key \in taken THEN new_data[key] ELSE combined[key]]
  IN [merged EXCEPT
        !.ai_confidence =
           JDict(Append(@.val, <<model, JInt(Filled(new_data))>>))]

\* What one model does: it is not active, its analysis raises, or it returns
\* new_data.
ModelOutput(active, raised, new_data) ==
  [active |-> active, raised |-> raised, new_data |-> new_data]

\* analyze_artwork_multimodel (lines 102-172) from model number i on; outputs:
\* what each of the four models does
RECURSIVE merge_from(_, _, _, _)
merge_from(i, combined, models_tried, outputs) ==
  IF i > Len(ModelNames)
  THEN [combined_analysis |-> combined, models_used |-> models_tried]
  ELSE IF outputs[i].active /\ ~outputs[i].raised
  THEN merge_from(i + 1,
                  _merge_analysis(combined, outputs[i].new_data,
                                  ModelNames[i]),
                  Append(models_tried, ModelNames[i]), outputs)
  ELSE merge_from(i + 1, combined, models_tried, outputs)

analyze_artwork_multimodel(outputs) ==
  merge_from(1, combined_analysis, <<>>, outputs)

\* what model number i can do: nothing, raise, or return an analysis that
\* names an artist, or estimates a value, or both, or neither (an empty
\* artist and an empty estimate)
Estimate(i) ==
  JDict(<< <<"min", JInt(100 * i)>>, <<"max", JInt(200 * i)>> >>)
ModelOutputs(i) ==
  {ModelOutput(FALSE, FALSE, <<>>), ModelOutput(TRUE, TRUE, <<>>),
   ModelOutput(TRUE, FALSE, <<>>)}
  \cup {ModelOutput(TRUE, FALSE, [artist |-> a, estimated_value |-> e]) :
          a \in {JStr(""), JStr("Artist named by " \o ModelNames[i])},
          e \in {JDict(<<>>), Estimate(i)}}

InitMerge ==
  /\ NoTokenState
  /\ inventory_db = NoDatabase
  /\ args \in {[fn |-> "analyze_artwork_multimodel", outputs |-> o] :
                 o \in {<<a, b, c, d>> :
                          a \in ModelOutputs(1), b \in ModelOutputs(2),
                          c \in ModelOutputs(3), d \in ModelOutputs(4)}}
  /\ result = NotCalled

AnalyzeArtworkMultimodel ==
  /\ result = NotCalled
  /\ result' = [fn |-> args.fn,
                analysis |-> analyze_artwork_multimodel(args.outputs)]
  /\ UNCHANGED <<TokenVars, args, inventory_db>>

NextMerge == AnalyzeArtworkMultimodel

SpecMerge == InitMerge /\ [][NextMerge]_vars

Merged == result # NotCalled

\* the models, in order, that returned a non-empty value for the field
Fillers(field) ==
  {i \in 1..Len(ModelNames) :
     /\ args.outputs[i].active
     /\ ~args.outputs[i].raised
     /\ field \in DOMAIN args.outputs[i].new_data
     /\ truthy(args.outputs[i].new_data[field])}

\* the field holds the value of the first model that returned a non-empty
\* value for it, and what it started with when none did
FirstNonEmptyWins(field) ==
  result.analysis.combined_analysis[field] =
    IF Fillers(field) = {} THEN combined_analysis[field]
    ELSE args.outputs[Least(Fillers(field))].new_data[field]

\* C30: the models are merged in the order GPT-4, Claude, Gemini, Grok with
\* first-non-empty-wins: every field, estimated_value included, holds the
\* value of the first model in that order that returned a non-empty value
\* for it.
C30_FirstNonEmptyWins ==
  Merged =>
    /\ FirstNonEmptyWins("artist")
    /\ FirstNonEmptyWins("keywords")
    /\ FirstNonEmptyWins("estimated_value")

\* the same for the fields that start empty
C30_FirstNonEmptyWinsIfEmpty ==
  Merged =>
    /\ FirstNonEmptyWins("artist")
    /\ FirstNonEmptyWins("keywords")

====
